---------------------------- MODULE Spec2Model ----------------------------
(***************************************************************************)
(* A model of the Gearbest scraper: the page parser (gearbest_parser.py),  *)
(* the data assembly (data_parser.py) and the traversal loops of           *)
(* gearbest_scraper.py (review pagination, item, catalog pagination).      *)
(*                                                                         *)
(* Python values are represented as follows.  A string is a sequence of    *)
(* one-character strings.  None is the one-element sequence None, which no *)
(* string equals.  A dict is a function from its keys to its values.  A    *)
(* call that may raise returns a record whose field exc names the          *)
(* exception ("" when the call returned).  A timestamp is a positive       *)
(* integer and NoTs stands for a timestamp that is None.                   *)
(***************************************************************************)
EXTENDS Integers, Sequences, FiniteSets, TLC

None == <<"None">>
NoTs == 0
EmptyDict == [k \in {} |-> None]
NoExc == ""

\* dict.get(key): None when the key is missing.
Get(d, k) == IF k \in DOMAIN d THEN d[k] ELSE None

\* d[key] = value
Put(d, k, v) == (k :> v) @@ d

\* d.update(e)
Update(d, e) == e @@ d

-----------------------------------------------------------------------------
(***************************************************************************)
(* Bounds of the model.                                                    *)
(***************************************************************************)
MaxCrumbs == 4
MaxRevPages == 2
MaxReviewLimit == 1
MaxCatPages == 2
MaxProducts == 2
MaxDepartments == 3
MaxRows == 3
MaxCatalogs == 2
MaxRecords == 2
MaxRun == 3
Watermark == 2

\* review_limit / max_products default: math.inf
Inf == 1000000

-----------------------------------------------------------------------------
(***************************************************************************)
(* ID_PATTERN = "(pp|c)_.+?[/|.]" and re.search                            *)
(***************************************************************************)
ID_TERMINATORS == {"/", "|", "."}

\* Length of the alternative (pp|c) followed by "_" matched at position i of
\* s, 0 when neither alternative matches there.
IdPrefixLen(s, i) ==
    IF i + 2 <= Len(s) /\ s[i] = "p" /\ s[i + 1] = "p" /\ s[i + 2] = "_" THEN 3
    ELSE IF i + 1 <= Len(s) /\ s[i] = "c" /\ s[i + 1] = "_" THEN 2
    ELSE 0

\* First position k >= from with s[k] in the class [/|.], 0 when there is none.
RECURSIVE IdTerminatorPos(_, _)
IdTerminatorPos(s, from) ==
    IF from > Len(s) THEN 0
    ELSE IF s[from] \in ID_TERMINATORS THEN from
    ELSE IdTerminatorPos(s, from + 1)

\* re.search(ID_PATTERN, s) tried from position i on: the leftmost match, with
\* the lazy .+? taking at least one character; <<>> when nothing matches.
RECURSIVE IdSearchFrom(_, _)
IdSearchFrom(s, i) ==
    IF i > Len(s) THEN <<>>
    ELSE LET p == IdPrefixLen(s, i)
             k == IF p = 0 THEN 0 ELSE IdTerminatorPos(s, i + p + 1)
         IN  IF k # 0 THEN SubSeq(s, i, k) ELSE IdSearchFrom(s, i + 1)

IdSearch(s) == IdSearchFrom(s, 1)

\* str.rstrip(chars)
RECURSIVE RStrip(_, _)
RStrip(s, chars) ==
    IF Len(s) > 0 /\ s[Len(s)] \in chars THEN RStrip(SubSeq(s, 1, Len(s) - 1), chars)
    ELSE s

\* str.lstrip(chars)
RECURSIVE LStrip(_, _)
LStrip(s, chars) ==
    IF Len(s) > 0 /\ s[1] \in chars THEN LStrip(Tail(s), chars)
    ELSE s

\* str.strip(chars)
Strip(s, chars) == LStrip(RStrip(s, chars), chars)

-----------------------------------------------------------------------------
(***************************************************************************)
(* Documents.  A fetched document is a record of the elements the parsers  *)
(* look for:                                                               *)
(*   info       div.goodsIntro_infoWrap is present                         *)
(*   title      <<>> or <<text>>: h1.goodsIntro_title                      *)
(*   canonical  <<>> or <<href>>: link[rel=canonical] (href None when the  *)
(*              attribute is missing)                                      *)
(*   crumbs     the a.cGoodsCrumb_itemLink tags, each [href, span] with    *)
(*              span <<>> or <<text>>                                      *)
(*   wrap       div#js-reviewWrap is present                               *)
(*   elems      the li.goodsReviews_item elements, each                    *)
(*              [name, rid, time]: name <<>> or <<text>> (the user name    *)
(*              tag), rid the data-review-id attribute or None, time <<>>  *)
(*              or <<[fmt, val]>> (the text of p.goodsReviews_itemTime,    *)
(*              in format "basic", "complex" or "other")                   *)
(*   pager      the next-page control of the reviews, see                  *)
(*              RetrieveNewReviewPageElement                               *)
(***************************************************************************)

\* The page source None: BeautifulSoup(None, parser) raises TypeError.
NoContent == [none |-> TRUE]

\* _parse_basic_element with the item_name lambda:
\* x.get_text().strip().replace("\n", "")
WHITESPACE == {" ", "\n"}
RemoveChar(s, ch) == SelectSeq(s, LAMBDA c : c # ch)

ParseBasicElement(element, item_dict, key_name) ==
    IF element # <<>>
    THEN Put(item_dict, key_name, RemoveChar(Strip(element[1], WHITESPACE), "\n"))
    ELSE item_dict

\* _parse_item_url: [exc, val] with val the mutated dictionary.
ParseItemUrl(element, item_dict) ==
    IF element # <<>>
    THEN LET item_url == element[1]
         IN  IF item_url = None
             THEN [exc |-> "TypeError", val |-> Put(item_dict, "item_url", item_url)]
             ELSE IF IdSearch(item_url) = <<>>
             THEN [exc |-> "AttributeError", val |-> Put(item_dict, "item_url", item_url)]
             ELSE [exc |-> NoExc,
                   val |-> Put(Put(item_dict, "item_url", item_url),
                               "item_id", RStrip(IdSearch(item_url), {"."}))]
    ELSE [exc |-> NoExc, val |-> item_dict]

CATEGORY_HIERARCHY == <<"main_category", "middle_category", "granular_category">>

Min(a, b) == IF a < b THEN a ELSE b

\* One iteration of the loop of _parse_categories, for the n-th tag.
ParseCategoryTag(key_name, tag, item_dict) ==
    IF tag.href = None THEN [exc |-> "TypeError", val |-> item_dict]
    ELSE IF IdSearch(tag.href) = <<>> THEN [exc |-> "AttributeError", val |-> item_dict]
    ELSE LET d1 == Put(item_dict, key_name \o "_id", Strip(IdSearch(tag.href), {"/"}))
         IN  IF tag.span # <<>>
             THEN [exc |-> NoExc,
                   val |-> Put(Put(d1, key_name \o "_name",
                                   RemoveChar(Strip(tag.span[1], WHITESPACE), "\\")),
                               key_name \o "_url", tag.href)]
             ELSE [exc |-> NoExc, val |-> d1]

\* _parse_categories: zip(CATEGORY_HIERARCHY, categories), from the n-th pair on.
RECURSIVE ParseCategoriesFrom(_, _, _)
ParseCategoriesFrom(categories, n, item_dict) ==
    IF n > Min(Len(CATEGORY_HIERARCHY), Len(categories))
    THEN [exc |-> NoExc, val |-> item_dict]
    ELSE LET r == ParseCategoryTag(CATEGORY_HIERARCHY[n], categories[n], item_dict)
         IN  IF r.exc # NoExc THEN r ELSE ParseCategoriesFrom(categories, n + 1, r.val)

ParseCategories(categories, item_dict) == ParseCategoriesFrom(categories, 1, item_dict)

\* parse_item: [exc, kind, item]; kind is "none" when it returns None, "dict"
\* when it returns the item dictionary.  now is datetime.datetime.now().
ParseItem(item_content, now) ==
    IF item_content = NoContent
    THEN [exc |-> "TypeError", kind |-> "none", item |-> EmptyDict]
    ELSE IF ~item_content.info
    THEN [exc |-> NoExc, kind |-> "none", item |-> EmptyDict]
    ELSE LET i0 == Put(EmptyDict, "timestamp", now)
             i1 == ParseBasicElement(item_content.title, i0, "item_name")
             u  == ParseItemUrl(item_content.canonical, i1)
             c  == ParseCategories(item_content.crumbs, u.val)
         IN  IF u.exc # NoExc THEN [exc |-> u.exc, kind |-> "none", item |-> EmptyDict]
             ELSE IF c.exc # NoExc THEN [exc |-> c.exc, kind |-> "none", item |-> EmptyDict]
             ELSE [exc |-> NoExc, kind |-> "dict", item |-> c.val]

-----------------------------------------------------------------------------
(***************************************************************************)
(* Reviews of one document                                                 *)
(***************************************************************************)

\* retrieve_username_and_id_from_review: [found, val].  A Tag is always true,
\* so "not user_name_tag" holds only when find() returned None; an empty
\* data-review-id is false like a missing one.
RetrieveUsernameAndIdFromReview(review) ==
    IF review.name = <<>> \/ review.rid = None \/ review.rid = <<>>
    THEN [found |-> FALSE, val |-> EmptyDict]
    ELSE [found |-> TRUE,
          val |-> Put(Put(EmptyDict, "user_name", review.name[1]), "user_id", review.rid)]

\* The try statement around strptime in retrieve_review_data_from_review:
\* REVIEW_DATE_FORMAT_BASIC first; on ValueError REVIEW_DATE_FORMAT_COMPLEX,
\* whose own ValueError is raised inside the handler and so is not caught.
ParseReviewTime(time_tag) ==
    IF time_tag = <<>> THEN [exc |-> NoExc, val |-> NoTs]
    ELSE IF time_tag[1].fmt = "basic" THEN [exc |-> NoExc, val |-> time_tag[1].val]
    ELSE IF time_tag[1].fmt = "complex" THEN [exc |-> NoExc, val |-> time_tag[1].val]
    ELSE [exc |-> "ValueError", val |-> NoTs]

\* retrieve_review_data_from_review: [exc, val]; the returned dictionary always
\* has its five keys.  The title, rating, attribute and text elements are
\* absent from the documents of this model.
RetrieveReviewDataFromReview(review) ==
    LET t == ParseReviewTime(review.time)
    IN  [exc |-> t.exc,
         val |-> [k \in {"review_title", "review_rating", "review_attributes",
                         "review_text", "post_timestamp"} |->
                     IF k = "post_timestamp" THEN t.val
                     ELSE IF k = "review_text" THEN <<>>
                     ELSE None]]

\* The body of the for loop of retrieve_reviews_from_item for one list element:
\* [exc, keep, val].
ReviewDictOf(review, item_id) ==
    LET user_name_and_id == RetrieveUsernameAndIdFromReview(review)
        d0 == IF user_name_and_id.found THEN Update(EmptyDict, user_name_and_id.val)
              ELSE EmptyDict
        review_data == RetrieveReviewDataFromReview(review)
        d1 == IF DOMAIN review_data.val # {} THEN Update(d0, review_data.val) ELSE d0
    IN  IF review_data.exc # NoExc
        THEN [exc |-> review_data.exc, keep |-> FALSE, val |-> EmptyDict]
        ELSE IF DOMAIN d1 # {}
        THEN [exc |-> NoExc, keep |-> TRUE, val |-> Put(d1, "item_id", item_id)]
        ELSE [exc |-> NoExc, keep |-> FALSE, val |-> EmptyDict]

RECURSIVE ReviewsLoop(_, _, _, _)
ReviewsLoop(elems, n, item_id, reviews) ==
    IF n > Len(elems) THEN [exc |-> NoExc, val |-> reviews]
    ELSE LET r == ReviewDictOf(elems[n], item_id)
         IN  IF r.exc # NoExc THEN [exc |-> r.exc, val |-> reviews]
             ELSE ReviewsLoop(elems, n + 1, item_id,
                              IF r.keep THEN Append(reviews, r.val) ELSE reviews)

\* retrieve_reviews_from_item: [exc, kind, reviews] with kind "none" when it
\* returns None and "list" when it returns the list of review dictionaries.
RetrieveReviewsFromItem(content) ==
    IF content = NoContent THEN [exc |-> "TypeError", kind |-> "none", reviews |-> <<>>]
    ELSE IF ~content.wrap THEN [exc |-> NoExc, kind |-> "none", reviews |-> <<>>]
    ELSE IF content.canonical # <<>> /\ content.canonical[1] = None
    THEN [exc |-> "TypeError", kind |-> "none", reviews |-> <<>>]
    ELSE IF content.canonical # <<>> /\ IdSearch(content.canonical[1]) = <<>>
    THEN [exc |-> "AttributeError", kind |-> "none", reviews |-> <<>>]
    ELSE LET item_id == IF content.canonical # <<>>
                        THEN RStrip(IdSearch(content.canonical[1]), {"."})
                        ELSE None
         IN  IF content.elems = <<>>
             THEN [exc |-> NoExc, kind |-> "none", reviews |-> <<>>]
             ELSE LET r == ReviewsLoop(content.elems, 1, item_id, <<>>)
                  IN  [exc |-> r.exc,
                       kind |-> IF r.exc = NoExc THEN "list" ELSE "none",
                       reviews |-> IF r.exc = NoExc THEN r.val ELSE <<>>]

\* retrieve_new_review_page_element: [exc, found].  content.pager is
\* [wrap, paging, anchor]: div.goodsReviews_pageWrap present, div.gbPaging
\* present inside it, and anchor <<>> or <<attrs>>, the attributes of
\* a[data-goto=next].
RetrieveNewReviewPageElement(content) ==
    IF content = NoContent THEN [exc |-> "TypeError", found |-> FALSE]
    ELSE IF ~content.pager.wrap THEN [exc |-> NoExc, found |-> FALSE]
    ELSE IF ~content.pager.paging THEN [exc |-> NoExc, found |-> FALSE]
    ELSE IF content.pager.anchor = <<>> THEN [exc |-> "AttributeError", found |-> FALSE]
    ELSE IF "class" \notin DOMAIN content.pager.anchor[1]
    THEN [exc |-> "KeyError", found |-> FALSE]
    ELSE IF "disabled" \in content.pager.anchor[1]["class"]
    THEN [exc |-> NoExc, found |-> FALSE]
    ELSE [exc |-> NoExc, found |-> TRUE]

-----------------------------------------------------------------------------
(***************************************************************************)
(* Data assembly (data_parser.py)                                          *)
(***************************************************************************)

\* Python truth of a string-or-None value.
Truthy(v) == v # None /\ v # <<>>

CategoryData(category_id, name, url) ==
    [category_id |-> category_id, name |-> name, url |-> url]

\* create_item_data without lines 68-69: the granular category stays as parsed.
CreateItemDataNoCollapse(item_data) ==
    [item_id |-> Get(item_data, "item_id"),
     item_name |-> Get(item_data, "item_name"),
     item_url |-> Get(item_data, "item_url"),
     main_category |-> CategoryData(Get(item_data, "main_category_id"),
                                    Get(item_data, "main_category_name"),
                                    Get(item_data, "main_category_url")),
     middle_category |-> CategoryData(Get(item_data, "middle_category_id"),
                                      Get(item_data, "middle_category_name"),
                                      Get(item_data, "middle_category_url")),
     granular_category |-> CategoryData(Get(item_data, "granular_category_id"),
                                        Get(item_data, "granular_category_name"),
                                        Get(item_data, "granular_category_url"))]

\* create_item_data, without the price record and the reviews.
CreateItemData(item_data) ==
    LET main_category == CategoryData(Get(item_data, "main_category_id"),
                                      Get(item_data, "main_category_name"),
                                      Get(item_data, "main_category_url"))
        middle_category == CategoryData(Get(item_data, "middle_category_id"),
                                        Get(item_data, "middle_category_name"),
                                        Get(item_data, "middle_category_url"))
        parsed_granular == CategoryData(Get(item_data, "granular_category_id"),
                                        Get(item_data, "granular_category_name"),
                                        Get(item_data, "granular_category_url"))
        granular_category ==
            IF ~Truthy(parsed_granular.category_id)
            THEN IF Truthy(middle_category.category_id) THEN middle_category
                 ELSE main_category
            ELSE parsed_granular
    IN  [item_id |-> Get(item_data, "item_id"),
         item_name |-> Get(item_data, "item_name"),
         item_url |-> Get(item_data, "item_url"),
         main_category |-> main_category,
         middle_category |-> middle_category,
         granular_category |-> granular_category]

-----------------------------------------------------------------------------
(***************************************************************************)
(* Review pagination: scrape_paginated_reviews_from_item, called with the  *)
(* page source of the loaded item page as content.  Its local state is a   *)
(* record:                                                                 *)
(*   pc                  "loop" (line 217), "parsed" (line 220), "locate"  *)
(*                       (line 231), "click" (line 235), "returned",       *)
(*                       "raised"                                          *)
(*   content, all_reviews, review_count, last_seen_timestamp, page_reviews *)
(*                       the locals of the method; page_reviews is         *)
(*                       [kind, reviews]                                   *)
(*   review_limit        the parameter                                     *)
(*   exc                 the exception that left the method                *)
(*   parses, clicks      how many pages were parsed and how many times the *)
(*                       next-page control was clicked                     *)
(*   visited             the reviews of every page parsed so far           *)
(*   stop                why the method returned                           *)
(***************************************************************************)

\* retrieve_last_seen_timestamp: db is [exc, val], the outcome of the query
\* (val NoTs when max(post_timestamp) is NULL).
RetrieveLastSeenTimestamp(db) ==
    IF db.exc # NoExc THEN [exc |-> db.exc, val |-> NoTs]
    ELSE [exc |-> NoExc, val |-> IF db.val # NoTs THEN db.val ELSE NoTs]

\* _retrieve_review_deltas keeping the reviews posted at the watermark too.
RetrieveReviewDeltasInclusive(reviews, last_seen_timestamp) ==
    IF \E i \in 1..Len(reviews) : reviews[i]["post_timestamp"] = NoTs
    THEN [exc |-> "TypeError", val |-> <<>>]
    ELSE [exc |-> NoExc,
          val |-> SelectSeq(reviews,
                            LAMBDA page_review :
                                page_review["post_timestamp"] >= last_seen_timestamp)]

\* _retrieve_review_deltas: [exc, val]; comparing a post_timestamp that is
\* None with the watermark raises TypeError.
RetrieveReviewDeltas(reviews, last_seen_timestamp) ==
    IF \E i \in 1..Len(reviews) : reviews[i]["post_timestamp"] = NoTs
    THEN [exc |-> "TypeError", val |-> <<>>]
    ELSE [exc |-> NoExc,
          val |-> SelectSeq(reviews,
                            LAMBDA page_review :
                                page_review["post_timestamp"] > last_seen_timestamp)]

\* Lines 213-215.
ReviewsEnter(content, review_limit, db) ==
    LET w == RetrieveLastSeenTimestamp(db)
    IN  [pc |-> IF w.exc # NoExc THEN "raised" ELSE "loop",
         content |-> content,
         all_reviews |-> <<>>,
         review_count |-> 0,
         last_seen_timestamp |-> w.val,
         page_reviews |-> [kind |-> "none", reviews |-> <<>>],
         review_limit |-> review_limit,
         exc |-> w.exc,
         parses |-> 0,
         clicks |-> 0,
         visited |-> <<>>,
         stop |-> ""]

ReviewsReturn(rv, why) == [rv EXCEPT !.pc = "returned", !.stop = why]
ReviewsRaise(rv, e) == [rv EXCEPT !.pc = "raised", !.exc = e]

\* The loop condition written review_count <= review_limit.
ReviewsParsePageOffByOne(rv) ==
    IF rv.review_count <= rv.review_limit
    THEN LET r == RetrieveReviewsFromItem(rv.content)
         IN  IF r.exc # NoExc
             THEN [ReviewsRaise(rv, r.exc) EXCEPT !.parses = @ + 1]
             ELSE [rv EXCEPT !.pc = "parsed",
                             !.page_reviews = [kind |-> r.kind, reviews |-> r.reviews],
                             !.parses = @ + 1,
                             !.visited = @ \o r.reviews]
    ELSE ReviewsReturn(rv, "limit")

\* Lines 217-218 (and 241 when the loop condition is false).
ReviewsParsePage(rv) ==
    IF rv.review_count < rv.review_limit
    THEN LET r == RetrieveReviewsFromItem(rv.content)
         IN  IF r.exc # NoExc
             THEN [ReviewsRaise(rv, r.exc) EXCEPT !.parses = @ + 1]
             ELSE [rv EXCEPT !.pc = "parsed",
                             !.page_reviews = [kind |-> r.kind, reviews |-> r.reviews],
                             !.parses = @ + 1,
                             !.visited = @ \o r.reviews]
    ELSE ReviewsReturn(rv, "limit")

\* Lines 220-229 without the return of line 224.
ReviewsFilterNoStop(rv) ==
    IF rv.page_reviews.kind = "list" /\ rv.page_reviews.reviews # <<>>
    THEN IF rv.last_seen_timestamp # NoTs
         THEN LET new_reviews == RetrieveReviewDeltas(rv.page_reviews.reviews,
                                                      rv.last_seen_timestamp)
              IN  IF new_reviews.exc # NoExc THEN ReviewsRaise(rv, new_reviews.exc)
                  ELSE [rv EXCEPT !.pc = "locate",
                                  !.all_reviews = @ \o new_reviews.val]
         ELSE [rv EXCEPT !.pc = "locate",
                         !.all_reviews = @ \o rv.page_reviews.reviews]
    ELSE ReviewsReturn(rv, "no_reviews")

\* Lines 220-229.
ReviewsFilter(rv) ==
    IF rv.page_reviews.kind = "list" /\ rv.page_reviews.reviews # <<>>
    THEN IF rv.last_seen_timestamp # NoTs
         THEN LET new_reviews == RetrieveReviewDeltas(rv.page_reviews.reviews,
                                                      rv.last_seen_timestamp)
              IN  IF new_reviews.exc # NoExc THEN ReviewsRaise(rv, new_reviews.exc)
                  ELSE IF Len(new_reviews.val) = 0 THEN ReviewsReturn(rv, "no_new")
                  ELSE [rv EXCEPT !.pc = "locate",
                                  !.all_reviews = @ \o new_reviews.val]
         ELSE [rv EXCEPT !.pc = "locate",
                         !.all_reviews = @ \o rv.page_reviews.reviews]
    ELSE ReviewsReturn(rv, "no_reviews")

\* Lines 231-234.
ReviewsLocateNext(rv) ==
    LET next_page_element == RetrieveNewReviewPageElement(rv.content)
    IN  IF next_page_element.exc # NoExc THEN ReviewsRaise(rv, next_page_element.exc)
        ELSE IF ~next_page_element.found THEN ReviewsReturn(rv, "no_next")
        ELSE [rv EXCEPT !.pc = "click"]

\* Lines 235-240: clicked tells whether the click went through, page_source is
\* what the driver shows afterwards.
ReviewsClick(rv, clicked, page_source) ==
    IF ~clicked THEN [ReviewsReturn(rv, "click_failed") EXCEPT !.clicks = @ + 1]
    ELSE [rv EXCEPT !.pc = "loop",
                    !.content = page_source,
                    !.review_count = @ + 1,
                    !.clicks = @ + 1]

\* The whole method on an item whose later review pages are known: pages[n] is
\* [clicked, page_source], the outcome of the n-th click on the next-page
\* control.  A click beyond the known pages fails.
RECURSIVE ReviewsRun(_, _, _)
ReviewsRun(rv, pages, n) ==
    IF rv.pc = "loop" THEN ReviewsRun(ReviewsParsePage(rv), pages, n)
    ELSE IF rv.pc = "parsed" THEN ReviewsRun(ReviewsFilter(rv), pages, n)
    ELSE IF rv.pc = "locate" THEN ReviewsRun(ReviewsLocateNext(rv), pages, n)
    ELSE IF rv.pc = "click"
    THEN IF n <= Len(pages)
         THEN ReviewsRun(ReviewsClick(rv, pages[n].clicked, pages[n].page_source),
                         pages, n + 1)
         ELSE ReviewsRun(ReviewsClick(rv, FALSE, rv.content), pages, n + 1)
    ELSE rv

ScrapePaginatedReviewsFromItem(content, review_limit, db, pages) ==
    ReviewsRun(ReviewsEnter(content, review_limit, db), pages, 1)

-----------------------------------------------------------------------------
(***************************************************************************)
(* scrape_item.  What the site and the database hold for one item is a     *)
(* record:                                                                 *)
(*   page    the page source retrieve_source_from_url returns (NoContent   *)
(*           for None)                                                     *)
(*   sort    the hover and click on the "most recent" control go through   *)
(*           (no WebDriverException)                                       *)
(*   sorted  the page source after that click                              *)
(*   db      the answer of the reviews table, see RetrieveLastSeenTimestamp*)
(*   pages   the outcomes of the clicks on the next-page control           *)
(* The result is [exc, kind, item] as for parse_item.                      *)
(***************************************************************************)
\* Lines 148-150: what scrape_item does with the outcome r of the review
\* traversal.
ScrapeItemReviews(item_data, r) ==
    IF r.pc = "raised"
    THEN [exc |-> r.exc, kind |-> "none", item |-> EmptyDict]
    ELSE IF r.all_reviews # <<>>
    THEN [exc |-> NoExc, kind |-> "dict",
          item |-> Put(item_data.item, "reviews", r.all_reviews)]
    ELSE item_data

\* Lines 136-153: scrape_item once parse_item has answered item_data.
ScrapeItemParsed(item_data, site, scrape_reviews, review_limit) ==
    IF item_data.exc # NoExc
    THEN [exc |-> NoExc, kind |-> "none", item |-> EmptyDict]
    ELSE IF ~scrape_reviews THEN item_data
    ELSE IF ~site.sort THEN item_data
    ELSE IF item_data.kind = "none"
    THEN [exc |-> "TypeError", kind |-> "none", item |-> EmptyDict]
    ELSE IF "item_id" \notin DOMAIN item_data.item
    THEN [exc |-> "KeyError", kind |-> "none", item |-> EmptyDict]
    ELSE ScrapeItemReviews(item_data,
                           ScrapePaginatedReviewsFromItem(site.sorted, review_limit,
                                                          site.db, site.pages))

ScrapeItem(site, scrape_reviews, review_limit, now) ==
    ScrapeItemParsed(ParseItem(site.page, now), site, scrape_reviews, review_limit)

-----------------------------------------------------------------------------
(***************************************************************************)
(* Catalog pages.  A catalog document is a record:                         *)
(*   sort_item_box  p.js-SortItemBox is present                            *)
(*   sorting_links  for each a.js-orderItem, whether its text holds "New"  *)
(*   list           "primary" (ul.js_seachResultList), "brand"             *)
(*                  (ul.brandList_content only) or "none"                  *)
(*   tiles          the li.gbGoodsItem tiles: for each, the item its link  *)
(*                  leads to                                               *)
(*   pager          [div, anchor]: div.cateMain_pages present, anchor <<>> *)
(*                  or <<[class, href]>> for a.pageNext, href telling      *)
(*                  whether it has one                                     *)
(* The item identifiers parse_catalog_content cuts out of the links are    *)
(* not used by the traversal and are left out.                             *)
(***************************************************************************)

\* parse_catalog_content: [exc, val].
ParseCatalogContent(content) ==
    IF content = NoContent THEN [exc |-> "TypeError", val |-> <<>>]
    ELSE IF content.list = "none" THEN [exc |-> "AttributeError", val |-> <<>>]
    ELSE [exc |-> NoExc, val |-> content.tiles]

\* retrieve_next_page: [exc, found]; found when a link to follow is returned.
RetrieveNextPage(content) ==
    IF content = NoContent THEN [exc |-> "TypeError", found |-> FALSE]
    ELSE IF ~content.pager.div THEN [exc |-> "AttributeError", found |-> FALSE]
    ELSE IF content.pager.anchor = <<>> THEN [exc |-> "AttributeError", found |-> FALSE]
    ELSE IF "disable" \notin content.pager.anchor[1].class
    THEN [exc |-> NoExc, found |-> content.pager.anchor[1].href]
    ELSE [exc |-> NoExc, found |-> FALSE]

\* retrieve_catalog_sort_by_new_url returning the first sort link when none is
\* labelled "New".
RetrieveCatalogSortByNewUrlOrFirst(content) ==
    IF content = NoContent THEN [exc |-> "TypeError", found |-> FALSE]
    ELSE IF ~content.sort_item_box THEN [exc |-> "ParsingError", found |-> FALSE]
    ELSE [exc |-> NoExc, found |-> content.sorting_links # <<>>]

\* retrieve_catalog_sort_by_new_url: [exc, found].
RetrieveCatalogSortByNewUrl(content) ==
    IF content = NoContent THEN [exc |-> "TypeError", found |-> FALSE]
    ELSE IF ~content.sort_item_box THEN [exc |-> "ParsingError", found |-> FALSE]
    ELSE [exc |-> NoExc,
          found |-> \E i \in 1..Len(content.sorting_links) : content.sorting_links[i]]

-----------------------------------------------------------------------------
(***************************************************************************)
(* The documents and inputs the specifications draw from.                  *)
(***************************************************************************)

\* Canonical links: "/pp_1.h" and "/pp_2/" hold an identifier, "/p.h" holds
\* none.
ItemHrefs == { <<"/", "p", "p", "_", "1", ".", "h">>,
               <<"/", "p", "p", "_", "2", "/">>,
               <<"/", "p", ".", "h">> }

\* Breadcrumb links: "/c_1/", "/a-c_2.h" and one without an identifier.
CategoryHrefs == { <<"/", "c", "_", "1", "/">>,
                   <<"/", "a", "-", "c", "_", "2", ".", "h">>,
                   <<"/", "c", "/">> }

CategoryNames == { <<"T", "V">>, <<" ", "T", "\\", "V", " ">> }

\* Post timestamps around the watermark Watermark: older, equal, newer.
Timestamps == {Watermark - 1, Watermark, Watermark + 1}

UserName == <<"u">>
ReviewId == <<"7">>

TimeTags == {<<>>} \cup {<<[fmt |-> f, val |-> t]>> : f \in {"basic"}, t \in Timestamps}
                   \cup {<<[fmt |-> "other", val |-> NoTs]>>}

\* Review list elements of a signed review.
SignedElems == {[name |-> <<UserName>>, rid |-> ReviewId, time |-> t] : t \in TimeTags}

\* Every review list element: the user name tag and the review id may each be
\* missing, the posted time may be in either format.
AllElems == [name : {<<>>, <<UserName>>},
             rid : {None, <<>>, ReviewId},
             time : TimeTags \cup {<<[fmt |-> "complex", val |-> Watermark + 1]>>}]

\* Lists of at most two elements.
UpToTwo(S) == {<<>>} \cup {<<a>> : a \in S} \cup {<<a, b>> : a \in S, b \in S}

Anchor(classes) == ("class" :> classes) @@ ("data-goto" :> {"next"})

Pagers == { [wrap |-> FALSE, paging |-> FALSE, anchor |-> <<>>],
            [wrap |-> TRUE, paging |-> FALSE, anchor |-> <<>>],
            [wrap |-> TRUE, paging |-> TRUE, anchor |-> <<>>],
            [wrap |-> TRUE, paging |-> TRUE, anchor |-> <<("data-goto" :> {"next"})>>],
            [wrap |-> TRUE, paging |-> TRUE, anchor |-> <<Anchor({"next", "disabled"})>>],
            [wrap |-> TRUE, paging |-> TRUE, anchor |-> <<Anchor({"next"})>>] }

GoodHref == <<"/", "p", "p", "_", "1", ".", "h">>

\* An item page with the given review section.
Doc(wrap, elems, pager) ==
    [info |-> TRUE, title |-> <<<<"n">>>>, canonical |-> <<GoodHref>>,
     crumbs |-> <<>>, wrap |-> wrap, elems |-> elems, pager |-> pager]

\* The review pages a traversal may be shown.
ReviewDocs == {Doc(FALSE, <<>>, p) : p \in Pagers}
                \cup {Doc(TRUE, e, p) : e \in UpToTwo(SignedElems), p \in Pagers}

ReviewLimits == 0..MaxReviewLimit \cup {Inf}

DbOutcomes == { [exc |-> NoExc, val |-> NoTs],
                [exc |-> NoExc, val |-> Watermark],
                [exc |-> "OperationalError", val |-> NoTs] }

-----------------------------------------------------------------------------
\* The documents parse_item is applied to: every combination of the elements
\* it reads, with up to MaxCrumbs breadcrumb links.
Crumbs == [href : CategoryHrefs, span : {<<>>} \cup {<<n>> : n \in {<<" ", "T", "\\", "V", " ">>}}]

RECURSIVE SeqsUpTo(_, _)
SeqsUpTo(S, n) ==
    IF n = 0 THEN {<<>>}
    ELSE LET shorter == SeqsUpTo(S, n - 1)
         IN  shorter \cup {Append(q, x) : q \in shorter, x \in S}

ItemDocs ==
    [info : BOOLEAN,
     title : {<<>>, <<<<" ", "n", "\n">>>>},
     canonical : {<<>>, <<None>>} \cup {<<h>> : h \in ItemHrefs},
     crumbs : SeqsUpTo(Crumbs, MaxCrumbs),
     wrap : {FALSE}, elems : {<<>>},
     pager : {[wrap |-> FALSE, paging |-> FALSE, anchor |-> <<>>]}]

\* The documents retrieve_reviews_from_item is applied to.
ReviewListDocs ==
    [info : {TRUE},
     title : {<<>>},
     canonical : {<<>>, <<GoodHref>>},
     crumbs : {<<>>},
     wrap : BOOLEAN, elems : UpToTwo(AllElems),
     pager : {[wrap |-> FALSE, paging |-> FALSE, anchor |-> <<>>]}]


\* The items a catalog tile may lead to, by name:
\*   "ok"            an item page with one review, all interactions succeed
\*   "timeout"       the page source is None
\*   "not_item"      no product info container, no review sort control
\*   "no_canonical"  an item page without canonical link
\*   "bad_review"    an item page whose review has a date in neither format
\*   "no_sort"       an item page with one review whose "most recent" sort
\*                   control cannot be found or clicked
TileKinds == {"ok", "timeout", "not_item", "no_canonical", "bad_review", "no_sort"}

NoPager == [wrap |-> FALSE, paging |-> FALSE, anchor |-> <<>>]

OneReview(fmt) ==
    <<[name |-> <<UserName>>, rid |-> ReviewId,
       time |-> <<[fmt |-> fmt, val |-> IF fmt = "other" THEN NoTs ELSE Watermark + 1]>>]>>

ItemSite(kind) ==
    LET good == Doc(TRUE, OneReview("basic"), NoPager)
        site(page, sort, sorted) ==
            [page |-> page, sort |-> sort, sorted |-> sorted,
             db |-> [exc |-> NoExc, val |-> NoTs], pages |-> <<>>]
    IN  CASE kind = "ok" -> site(good, TRUE, good)
          [] kind = "timeout" -> site(NoContent, FALSE, NoContent)
          [] kind = "not_item" ->
                site([good EXCEPT !.info = FALSE, !.wrap = FALSE, !.elems = <<>>],
                     FALSE, NoContent)
          [] kind = "no_canonical" ->
                site([good EXCEPT !.canonical = <<>>], TRUE,
                     [good EXCEPT !.canonical = <<>>])
          [] kind = "bad_review" ->
                site(good, TRUE, Doc(TRUE, OneReview("other"), NoPager))
          [] kind = "no_sort" -> site(good, FALSE, good)

CatalogDoc(sort_item_box, sorting_links, list, tiles, pager) ==
    [sort_item_box |-> sort_item_box, sorting_links |-> sorting_links,
     list |-> list, tiles |-> tiles, pager |-> pager]

PageNext(classes, href) == <<[class |-> classes, href |-> href]>>

FollowablePager == [div |-> TRUE, anchor |-> PageNext({"pageNext"}, TRUE)]
DisabledPager == [div |-> TRUE, anchor |-> PageNext({"pageNext", "disable"}, TRUE)]

CatalogPagers == { [div |-> FALSE, anchor |-> <<>>],
                   [div |-> TRUE, anchor |-> <<>>],
                   [div |-> TRUE, anchor |-> PageNext({"pageNext"}, FALSE)],
                   DisabledPager,
                   FollowablePager }

\* The catalog pages: the page source None, a page without product list, and
\* the pages listing up to two items.
CatalogDocs ==
    {NoContent}
      \cup {CatalogDoc(TRUE, <<TRUE>>, "none", <<>>, DisabledPager)}
      \cup {CatalogDoc(TRUE, <<TRUE>>, l, t, p) :
               l \in {"primary", "brand"}, t \in UpToTwo(TileKinds), p \in CatalogPagers}

\* The catalog has at most MaxCatPages pages: the last one has no link to a
\* next page.
CatalogDocsAt(n) ==
    IF n < MaxCatPages THEN CatalogDocs
    ELSE {d \in CatalogDocs : ~RetrieveNextPage(d).found}

\* The pages the catalog URL itself may show when the sort link is looked up.
EntryDocs ==
    {NoContent}
      \cup {CatalogDoc(FALSE, <<>>, "primary", <<>>, DisabledPager)}
      \cup {CatalogDoc(TRUE, l, "primary", <<>>, DisabledPager) :
               l \in {<<>>, <<FALSE>>, <<FALSE, TRUE>>}}
      \cup {CatalogDoc(TRUE, <<FALSE>>, "primary", <<"ok">>, FollowablePager)}

ProductLimits == 0..MaxProducts \cup {Inf}

\* datetime.datetime.now() at the time of the parse
Now == Watermark + 2

-----------------------------------------------------------------------------
VARIABLES
    rv,         \* the state of scrape_paginated_reviews_from_item
    db,         \* what the reviews table answers for the item
    doc,        \* a fetched document handed to a parser
    parsed,     \* what parse_item returned for doc
    assembled,  \* what create_item_data made of parsed
    revs,       \* what retrieve_reviews_from_item returned for doc
    ppc,        \* "start", "item", "assembled" or "reviews"
    cat,        \* the state of the generator scrape_paginated_catalog
    yielded,    \* the records it has yielded, in order
    listed,     \* the items listed by the catalog pages parsed so far
    dep,        \* the state of the generator scrape_all_departments
    ses,        \* the state of one command of scraper.py and of its driver
    enr,        \* the state of one run of the enrichment command
    store,      \* the state of one call of add_product and the rows written
    up,         \* the state of upload_item_to_database and the committed rows
    fld         \* one call of a field helper of the parser

reviewVars == <<rv, db>>
parseVars == <<doc, parsed, assembled, revs, ppc>>
catalogVars == <<cat, yielded, listed>>
deptVars == <<dep>>
sessionVars == <<ses>>
enrichVars == <<enr>>
storeVars == <<store>>
uploadVars == <<up>>
fieldVars == <<fld>>
vars == <<rv, db, doc, parsed, assembled, revs, ppc, cat, yielded, listed, dep, ses,
          enr, store, up, fld>>

\* What the actions of one machine leave alone: the variables of the others.
outsideReviews == <<parseVars, catalogVars, deptVars, sessionVars, enrichVars, storeVars, uploadVars, fieldVars>>
outsideParse == <<reviewVars, catalogVars, deptVars, sessionVars, enrichVars, storeVars, uploadVars, fieldVars>>
outsideCatalog == <<reviewVars, parseVars, deptVars, sessionVars, enrichVars, storeVars, uploadVars, fieldVars>>
outsideDept == <<reviewVars, parseVars, catalogVars, sessionVars, enrichVars, storeVars, uploadVars, fieldVars>>

ReviewsIdle ==
    /\ rv = [pc |-> "off"]
    /\ db = [exc |-> NoExc, val |-> NoTs]

ParseIdle ==
    /\ doc = NoContent
    /\ parsed = [exc |-> NoExc, kind |-> "none", item |-> EmptyDict]
    /\ assembled = [item_id |-> None]
    /\ revs = [exc |-> NoExc, kind |-> "none", reviews |-> <<>>]
    /\ ppc = "off"

CatalogIdle ==
    /\ cat = [pc |-> "off"]
    /\ yielded = <<>>
    /\ listed = <<>>

DeptIdle == dep = [pc |-> "off"]

SessionIdle == ses = [pc |-> "off"]

EnrichIdle == enr = [pc |-> "off"]

StoreIdle == store = [pc |-> "off"]

UploadIdle == up = [pc |-> "off"]

FieldsIdle == fld = [pc |-> "off"]

\* The machines added after the scraper's own are idle.
OthersIdle == EnrichIdle /\ StoreIdle /\ UploadIdle /\ FieldsIdle

ReviewsCall(content, review_limit) ==
    [pc |-> "call", content |-> content, all_reviews |-> <<>>, review_count |-> 0,
     last_seen_timestamp |-> NoTs,
     page_reviews |-> [kind |-> "none", reviews |-> <<>>],
     review_limit |-> review_limit, exc |-> NoExc, parses |-> 0, clicks |-> 0,
     visited |-> <<>>, stop |-> ""]

(***************************************************************************)
(* SpecReviews: one call of scrape_paginated_reviews_from_item.  The page  *)
(* the driver shows after a click is chosen when the click is made; at     *)
(* most MaxRevPages pages exist, so the click on the last one fails.       *)
(***************************************************************************)
InitReviews ==
    /\ \E content \in ReviewDocs, review_limit \in ReviewLimits :
          rv = ReviewsCall(content, review_limit)
    /\ db \in DbOutcomes
    /\ ParseIdle
    /\ CatalogIdle
    /\ DeptIdle
    /\ SessionIdle
    /\ OthersIdle

RvEnter ==
    /\ rv.pc = "call"
    /\ rv' = ReviewsEnter(rv.content, rv.review_limit, db)
    /\ UNCHANGED <<db, outsideReviews>>

RvParsePage ==
    /\ rv.pc = "loop"
    /\ rv' = ReviewsParsePage(rv)
    /\ UNCHANGED <<db, outsideReviews>>

RvFilter ==
    /\ rv.pc = "parsed"
    /\ rv' = ReviewsFilter(rv)
    /\ UNCHANGED <<db, outsideReviews>>

RvLocateNext ==
    /\ rv.pc = "locate"
    /\ rv' = ReviewsLocateNext(rv)
    /\ UNCHANGED <<db, outsideReviews>>

RvClick ==
    /\ rv.pc = "click"
    /\ \E clicked \in (IF rv.review_count + 1 < MaxRevPages THEN BOOLEAN ELSE {FALSE}),
          page_source \in ReviewDocs :
          rv' = ReviewsClick(rv, clicked, page_source)
    /\ UNCHANGED <<db, outsideReviews>>

NextReviews == RvEnter \/ RvParsePage \/ RvFilter \/ RvLocateNext \/ RvClick

SpecReviews == InitReviews /\ [][NextReviews]_vars

-----------------------------------------------------------------------------
(***************************************************************************)
(* SpecParse: the parsers applied to one fetched document, and the item    *)
(* record handed to create_item_data the way upload_item_to_database does  *)
(* it (only when the record is true).                                      *)
(***************************************************************************)
InitParse ==
    /\ doc \in ItemDocs \cup ReviewListDocs
    /\ parsed = [exc |-> NoExc, kind |-> "none", item |-> EmptyDict]
    /\ assembled = [item_id |-> None]
    /\ revs = [exc |-> NoExc, kind |-> "none", reviews |-> <<>>]
    /\ ppc = "start"
    /\ ReviewsIdle
    /\ CatalogIdle
    /\ DeptIdle
    /\ SessionIdle
    /\ OthersIdle

PsParseItem ==
    /\ ppc = "start"
    /\ parsed' = ParseItem(doc, Now)
    /\ ppc' = "item"
    /\ UNCHANGED <<doc, assembled, revs, outsideParse>>

PsCreateItemData ==
    /\ ppc = "item"
    /\ parsed.exc = NoExc
    /\ parsed.kind = "dict"
    /\ DOMAIN parsed.item # {}
    /\ assembled' = CreateItemData(parsed.item)
    /\ ppc' = "assembled"
    /\ UNCHANGED <<doc, parsed, revs, outsideParse>>

PsRetrieveReviews ==
    /\ ppc = "start"
    /\ revs' = RetrieveReviewsFromItem(doc)
    /\ ppc' = "reviews"
    /\ UNCHANGED <<doc, parsed, assembled, outsideParse>>

NextParse == PsParseItem \/ PsCreateItemData \/ PsRetrieveReviews

SpecParse == InitParse /\ [][NextParse]_vars

-----------------------------------------------------------------------------
(***************************************************************************)
(* SpecCatalog: one run of the generator scrape_paginated_catalog, resumed *)
(* by its consumer until it ends.  cat holds its locals:                   *)
(*   pc            "call", "loop" (line 85), "resume94" (after the yield   *)
(*                 of line 94), "raise98" (after the yield of line 97),    *)
(*                 "items" (line 100), "next" (line 109), "done", "raised" *)
(*   current_page  0 for None, else the number of the page in the catalog  *)
(*   idx           the position of the for loop in item_ids_and_urls       *)
(*   raised_at     where the exception that ended the generator came from  *)
(*   chain_ok      every page fetched so far had a product list with an    *)
(*                 item and a next-page link, followable or disabled       *)
(*   item_fetches  the number of calls of scrape_item                      *)
(* The page a catalog URL shows is chosen when it is fetched.              *)
(***************************************************************************)
NoneProduct == [kind |-> "none", item |-> EmptyDict]

\* Python truth of a value scrape_item returned.
ProductTruthy(product) == product.kind = "dict" /\ DOMAIN product.item # {}

PageInChain(content) ==
    /\ content # NoContent
    /\ content.list # "none"
    /\ content.tiles # <<>>
    /\ content.pager.div
    /\ content.pager.anchor # <<>>
    /\ \/ "disable" \in content.pager.anchor[1].class
       \/ content.pager.anchor[1].href

\* The generator just created by a call of scrape_paginated_catalog.
CatalogCall(max_products, review_limit, sort_by_newest) ==
    [pc |-> "call", current_page |-> 0, parsed_count |-> 0,
     page_content |-> NoContent, item_ids_and_urls |-> <<>>, idx |-> 0,
     max_products |-> max_products, review_limit |-> review_limit,
     sort_by_newest |-> sort_by_newest, exc |-> NoExc, raised_at |-> "",
     chain_ok |-> TRUE, item_fetches |-> 0,
     non_sorted_page_source |-> NoContent]

InitCatalog ==
    /\ \E max_products \in ProductLimits, sort_by_newest \in BOOLEAN :
          cat = CatalogCall(max_products, Inf, sort_by_newest)
    /\ yielded = <<>>
    /\ listed = <<>>
    /\ ReviewsIdle
    /\ ParseIdle
    /\ DeptIdle
    /\ SessionIdle
    /\ OthersIdle

\* Lines 74-83.
CatStart ==
    /\ cat.pc = "call"
    /\ IF cat.sort_by_newest
       THEN \E non_sorted_page_source \in EntryDocs :
               LET r == RetrieveCatalogSortByNewUrl(non_sorted_page_source)
                   c == [cat EXCEPT !.non_sorted_page_source = non_sorted_page_source]
               IN  cat' = IF r.exc # NoExc
                          THEN [c EXCEPT !.pc = "raised", !.exc = r.exc,
                                         !.raised_at = "sort"]
                          ELSE [c EXCEPT !.pc = "loop",
                                         !.current_page = IF r.found THEN 1 ELSE 0]
       ELSE cat' = [cat EXCEPT !.pc = "loop", !.current_page = 1]
    /\ UNCHANGED <<yielded, listed, outsideCatalog>>

\* Lines 85-98, up to the first yield or to the for loop.
CatLoop ==
    /\ cat.pc = "loop"
    /\ IF cat.current_page # 0 /\ cat.parsed_count < cat.max_products
       THEN \E page_content \in CatalogDocsAt(cat.current_page) :
               LET r == ParseCatalogContent(page_content)
                   c == [cat EXCEPT !.page_content = page_content,
                                    !.item_ids_and_urls = r.val,
                                    !.chain_ok = @ /\ PageInChain(page_content)]
               IN  IF r.exc # NoExc
                   THEN /\ cat' = [c EXCEPT !.pc = "resume94"]
                        /\ yielded' = Append(yielded, NoneProduct)
                        /\ UNCHANGED listed
                   ELSE IF r.val = <<>>
                   THEN /\ cat' = [c EXCEPT !.pc = "raise98"]
                        /\ yielded' = Append(yielded, NoneProduct)
                        /\ UNCHANGED listed
                   ELSE /\ cat' = [c EXCEPT !.pc = "items", !.idx = 1]
                        /\ listed' = listed \o r.val
                        /\ UNCHANGED yielded
       ELSE /\ cat' = [cat EXCEPT !.pc = "done"]
            /\ UNCHANGED <<yielded, listed>>
    /\ UNCHANGED outsideCatalog

\* Lines 96-98 without the yield of line 97.
CatResume94NoYield ==
    /\ cat.pc = "resume94"
    /\ cat' = [cat EXCEPT !.pc = "raise98"]
    /\ UNCHANGED <<yielded, listed, outsideCatalog>>

\* Lines 96-97, resumed after the yield of line 94: item_ids_and_urls is None.
CatResume94 ==
    /\ cat.pc = "resume94"
    /\ cat' = [cat EXCEPT !.pc = "raise98"]
    /\ yielded' = Append(yielded, NoneProduct)
    /\ UNCHANGED <<listed, outsideCatalog>>

\* Line 98 without the raise: the generator goes on to the next page.
CatRaise98Continue ==
    /\ cat.pc = "raise98"
    /\ cat' = [cat EXCEPT !.pc = "loop", !.current_page = 0]
    /\ UNCHANGED <<yielded, listed, outsideCatalog>>

\* Line 98, resumed after the yield of line 97.
CatRaise98 ==
    /\ cat.pc = "raise98"
    /\ cat' = [cat EXCEPT !.pc = "raised", !.exc = "ParsingError",
                          !.raised_at = "catalog"]
    /\ UNCHANGED <<yielded, listed, outsideCatalog>>

\* Lines 103-107 with parsed_count incremented for every record.
CatProductCountsNull(product) ==
    IF product.exc # NoExc
    THEN /\ cat' = [cat EXCEPT !.pc = "raised", !.exc = product.exc,
                               !.raised_at = "item", !.item_fetches = @ + 1]
         /\ UNCHANGED yielded
    ELSE /\ cat' = [cat EXCEPT !.parsed_count = @ + 1, !.idx = @ + 1,
                               !.item_fetches = @ + 1]
         /\ yielded' = Append(yielded, [kind |-> product.kind, item |-> product.item])

\* Lines 103-107 with the record kept back instead of yielded.
CatProductBuffered(product) ==
    IF product.exc # NoExc
    THEN /\ cat' = [cat EXCEPT !.pc = "raised", !.exc = product.exc,
                               !.raised_at = "item", !.item_fetches = @ + 1]
         /\ UNCHANGED yielded
    ELSE /\ cat' = [cat EXCEPT
                      !.parsed_count = IF ProductTruthy(product) THEN @ + 1 ELSE @,
                      !.idx = @ + 1,
                      !.item_fetches = @ + 1]
         /\ yielded' = IF cat.idx = Len(cat.item_ids_and_urls)
                       THEN Append(yielded, [kind |-> product.kind, item |-> product.item])
                       ELSE yielded

\* Lines 103-107: scrape_item has answered product (or raised).
CatProduct(product) ==
    IF product.exc # NoExc
    THEN /\ cat' = [cat EXCEPT !.pc = "raised", !.exc = product.exc,
                               !.raised_at = "item", !.item_fetches = @ + 1]
         /\ UNCHANGED yielded
    ELSE /\ cat' = [cat EXCEPT
                      !.parsed_count = IF ProductTruthy(product) THEN @ + 1 ELSE @,
                      !.idx = @ + 1,
                      !.item_fetches = @ + 1]
         /\ yielded' = Append(yielded, [kind |-> product.kind, item |-> product.item])

\* Lines 100-107: one iteration of the for loop.
CatItem ==
    /\ cat.pc = "items"
    /\ IF cat.idx > Len(cat.item_ids_and_urls)
       THEN /\ cat' = [cat EXCEPT !.pc = "next"]
            /\ UNCHANGED yielded
       ELSE IF cat.max_products < cat.parsed_count
       THEN /\ cat' = [cat EXCEPT !.pc = "next"]
            /\ UNCHANGED yielded
       ELSE CatProduct(ScrapeItem(ItemSite(cat.item_ids_and_urls[cat.idx]),
                                  TRUE, cat.review_limit, Now))
    /\ UNCHANGED <<listed, outsideCatalog>>

\* Lines 109-110.
CatNextPage ==
    /\ cat.pc = "next"
    /\ LET next_page == RetrieveNextPage(cat.page_content)
       IN  cat' = IF next_page.exc # NoExc
                  THEN [cat EXCEPT !.pc = "raised", !.exc = next_page.exc,
                                   !.raised_at = "next_page"]
                  ELSE [cat EXCEPT !.pc = "loop",
                                   !.current_page =
                                       IF next_page.found THEN @ + 1 ELSE 0]
    /\ UNCHANGED <<yielded, listed, outsideCatalog>>

NextCatalog ==
    CatStart \/ CatLoop \/ CatResume94 \/ CatRaise98 \/ CatItem \/ CatNextPage

SpecCatalog == InitCatalog /\ [][NextCatalog]_vars

-----------------------------------------------------------------------------
(***************************************************************************)
(* Properties of the catalog traversal (SpecCatalog)                       *)
(***************************************************************************)
NonNullYielded == {i \in DOMAIN yielded : yielded[i].kind # "none"}

\* C1: for a finite max_products M, scrape_paginated_catalog yields at most
\* M non-null item records, whatever the catalog pages list.
C1_AtMostMaxProducts ==
    (cat.pc # "off" /\ cat.max_products # Inf)
        => Cardinality(NonNullYielded) <= cat.max_products

\* The pages fetched so far form a complete chain: each listed an item and
\* had a next-page link, and the last one's link is marked disabled.
ChainComplete ==
    /\ cat.chain_ok
    /\ cat.page_content # NoContent
    /\ "disable" \in cat.page_content.pager.anchor[1].class

\* C2: with no product limit and sort_by_newest off, on a complete chain of
\* catalog pages the generator ends normally, having yielded one record per
\* listed item and nothing more.
C2_YieldsConcatenation ==
    (/\ cat.pc \in {"done", "raised"}
     /\ cat.max_products = Inf
     /\ ~cat.sort_by_newest
     /\ ChainComplete)
        => /\ cat.pc = "done"
           /\ Len(yielded) = Len(listed)

\* C3: no item aborts the catalog traversal: scrape_item never raises into
\* scrape_paginated_catalog.
C3_BadItemNeverAborts ==
    cat.pc = "raised" => cat.raised_at # "item"

\* The catalog page last fetched has no product list container.
WrongCatalogPage ==
    /\ cat.page_content # NoContent
    /\ cat.page_content.list = "none"

\* The page fetched to look up the "New" sort link has no sort container.
WrongEntryPage ==
    /\ cat.sort_by_newest
    /\ cat.non_sorted_page_source # NoContent
    /\ ~cat.non_sorted_page_source.sort_item_box

\* C17: a catalog page without product list, or an entry page without sort
\* container when sorting by newest, ends the generator with ParsingError;
\* from the moment the page is parsed no item is fetched and no item record
\* is yielded.
C17_WrongPageAborts ==
    /\ [](cat.pc # "off" =>
            /\ WrongCatalogPage => cat.pc \in {"resume94", "raise98", "raised"}
            /\ WrongEntryPage =>
                  /\ cat.pc = "raised" /\ cat.exc = "ParsingError"
                  /\ cat.item_fetches = 0 /\ yielded = <<>>
            /\ (cat.pc = "raised" /\ cat.raised_at = "catalog") =>
                  cat.exc = "ParsingError")
    /\ [][cat.pc \in {"resume94", "raise98"} =>
             /\ cat'.pc \in {"raise98", "raised"}
             /\ cat'.item_fetches = cat.item_fetches
             /\ listed' = listed
             /\ \A i \in DOMAIN yielded' : i > Len(yielded) => yielded'[i] = NoneProduct]_vars

\* The second page of a catalog had no product list, after an item of the
\* first page was scraped: the generator has raised ParsingError.
C17_Witness ==
    /\ cat.pc = "raised"
    /\ cat.exc = "ParsingError"
    /\ WrongCatalogPage
    /\ cat.current_page = 2
    /\ cat.parsed_count > 0

-----------------------------------------------------------------------------
(***************************************************************************)
(* Properties of the review pagination (SpecReviews)                       *)
(***************************************************************************)

\* The post timestamps of a list of review dictionaries.
PostTimestamps(reviews) == {reviews[i]["post_timestamp"] : i \in 1..Len(reviews)}

\* The current page has reviews and none of them is newer than the watermark.
NothingNewOnPage ==
    /\ rv.pc = "parsed"
    /\ rv.last_seen_timestamp # NoTs
    /\ rv.page_reviews.kind = "list"
    /\ rv.page_reviews.reviews # <<>>
    /\ \A t \in PostTimestamps(rv.page_reviews.reviews) :
          t # NoTs /\ t <= rv.last_seen_timestamp

\* C4: with a watermark, when no review of the current page is newer than the
\* watermark, the traversal returns at once what it has accumulated: the
\* next-page control is not clicked and no further page is parsed, then or
\* later.
C4_StopsWhenNothingNew ==
    [][ /\ NothingNewOnPage =>
            /\ rv'.pc = "returned"
            /\ rv'.all_reviews = rv.all_reviews
            /\ rv'.clicks = rv.clicks
            /\ rv'.parses = rv.parses
        /\ rv.pc = "returned" => rv' = rv ]_vars

\* A second page without any new review stopped a traversal that had
\* accumulated reviews and whose next-page control could have been followed.
C4_Witness ==
    /\ rv.pc = "returned"
    /\ rv.stop = "no_new"
    /\ rv.all_reviews # <<>>
    /\ rv.parses = 2
    /\ RetrieveNewReviewPageElement(rv.content).found

\* C5: the watermark of a traversal is the one read at its start, for as long
\* as the traversal lasts; with a watermark W every returned review was posted
\* strictly after W, and without one the returned list is the reviews of all
\* the pages parsed.
C5_WatermarkFilter ==
    /\ rv.pc # "call" =>
          rv.last_seen_timestamp = (IF db.exc = NoExc THEN db.val ELSE NoTs)
    /\ rv.pc = "returned" =>
          IF rv.last_seen_timestamp # NoTs
          THEN \A t \in PostTimestamps(rv.all_reviews) : t > rv.last_seen_timestamp
          ELSE rv.all_reviews = rv.visited

\* A traversal with a watermark returned some reviews and left out one posted
\* exactly at the watermark.
C5_Witness ==
    /\ rv.pc = "returned"
    /\ rv.last_seen_timestamp = Watermark
    /\ rv.all_reviews # <<>>
    /\ Watermark \in PostTimestamps(rv.visited)
    /\ Watermark + 1 \in PostTimestamps(rv.all_reviews)

\* C6: with a finite review_limit L at most L pages are parsed and the
\* next-page control is clicked at most L times; with L = 0 no page is parsed
\* and the list returned is empty.
C6_ReviewLimit ==
    /\ rv.review_limit # Inf =>
          /\ rv.parses <= rv.review_limit
          /\ rv.clicks <= rv.review_limit
    /\ rv.review_limit = 0 /\ rv.pc = "returned" =>
          /\ rv.all_reviews = <<>>
          /\ rv.parses = 0

\* The limit stopped a traversal whose next page had been loaded.
C6_Witness ==
    /\ rv.pc = "returned"
    /\ rv.stop = "limit"
    /\ rv.review_limit = 1
    /\ rv.parses = 1
    /\ rv.clicks = 1
    /\ rv.all_reviews # <<>>

\* The next-page control of a document is absent: one of the containers is
\* missing, or the containers hold no a[data-goto=next].
NextControlAbsent(content) ==
    \/ ~content.pager.wrap
    \/ ~content.pager.paging
    \/ content.pager.anchor = <<>>

NextControlDisabled(content) ==
    /\ ~NextControlAbsent(content)
    /\ "class" \in DOMAIN content.pager.anchor[1]
    /\ "disabled" \in content.pager.anchor[1]["class"]

\* C7: when the next-page control is absent or disabled, or the click on it
\* fails, the traversal returns the reviews accumulated so far and raises
\* nothing.
C7_StopsWithoutNextPage ==
    [][ /\ ( /\ rv.pc = "locate"
             /\ NextControlAbsent(rv.content) \/ NextControlDisabled(rv.content) ) =>
            /\ rv'.pc = "returned"
            /\ rv'.all_reviews = rv.all_reviews
        /\ (rv.pc = "click" /\ rv'.clicks = rv.clicks + 1 /\ rv'.review_count = rv.review_count) =>
            /\ rv'.pc = "returned"
            /\ rv'.all_reviews = rv.all_reviews ]_vars

-----------------------------------------------------------------------------
(***************************************************************************)
(* Properties of the parsers and of the data assembly (SpecParse)          *)
(***************************************************************************)

\* parse_item returned a record for doc.
ItemParsed == ppc \in {"item", "assembled"} /\ parsed.exc = NoExc /\ parsed.kind = "dict"

\* C8: every record parse_item returns has an item identifier and an item URL,
\* neither of them None.
C8_ParsedItemHasId ==
    ItemParsed =>
        /\ Get(parsed.item, "item_id") # None
        /\ Get(parsed.item, "item_url") # None

\* C9: every review in the list retrieve_reviews_from_item returns carries a
\* user name or a user id.
C9_NoAnonymousReview ==
    (ppc = "reviews" /\ revs.exc = NoExc /\ revs.kind = "list") =>
        \A i \in 1..Len(revs.reviews) :
            \/ Truthy(Get(revs.reviews[i], "user_name"))
            \/ Truthy(Get(revs.reviews[i], "user_id"))

\* The number of category levels of the parsed record: how many of the
\* identifiers main, middle, granular it has, from main down.
CategoryLevels ==
    IF "main_category_id" \notin DOMAIN parsed.item THEN 0
    ELSE IF "middle_category_id" \notin DOMAIN parsed.item THEN 1
    ELSE IF "granular_category_id" \notin DOMAIN parsed.item THEN 2
    ELSE 3

RawCategory(level) ==
    [category_id |-> Get(parsed.item, level \o "_id"),
     name |-> Get(parsed.item, level \o "_name"),
     url |-> Get(parsed.item, level \o "_url")]

\* C10: the granular category of the assembled item is the main category of the
\* record when the record has one category level, its middle category when it
\* has two, and its granular category as parsed when it has three.
C10_CategoryCollapse ==
    ppc = "assembled" =>
        /\ CategoryLevels = 1 =>
              /\ assembled.granular_category = RawCategory("main_category")
              /\ assembled.granular_category = assembled.main_category
        /\ CategoryLevels = 2 =>
              /\ assembled.granular_category = RawCategory("middle_category")
              /\ assembled.granular_category = assembled.middle_category
        /\ CategoryLevels = 3 =>
              assembled.granular_category = RawCategory("granular_category")

\* An item with two breadcrumb links was assembled, and its granular category
\* carries the identifier and the name of the second link.
C10_Witness ==
    /\ ppc = "assembled"
    /\ Len(doc.crumbs) = 2
    /\ CategoryLevels = 2
    /\ assembled.granular_category.category_id = <<"c", "_", "2", ".">>
    /\ assembled.granular_category.name = <<"T", "V">>
    /\ assembled.main_category.category_id = <<"c", "_", "1">>


\* C11: every item assembled by create_item_data has a granular category
\* whose identifier is non-null, whatever the number of breadcrumb links.
C11_GranularCategoryHasId ==
    ppc = "assembled" => Truthy(assembled.granular_category.category_id)

-----------------------------------------------------------------------------
(***************************************************************************)
(* Departments.  The homepage is NoContent (the fetch timed out) or a      *)
(* record:                                                                 *)
(*   box    ul.headerCate_itemBox is present                               *)
(*   items  its li.headerCate_item elements, each [a], a the first anchor  *)
(*          of the element: <<>> or <<[title, href]>>, title None when the *)
(*          attribute is missing                                           *)
(***************************************************************************)
Fashion == <<"F", "a", "s", "h", "i", "o", "n">>
TopBrands == <<"T", "o", "p", " ", "B", "r", "a", "n", "d", "s">>

\* Line 70: the element has an anchor.
HasAnchor(department) == department.a # <<>>

\* Line 74 with "Top Brands" left out of the list of names.
DepartmentKeptButBrands(department) == department.a[1].title \notin {Fashion}

\* Line 74: the name of the department is none of the excluded names.
DepartmentKept(department) == department.a[1].title \notin {Fashion, TopBrands}

\* parse_departments: [exc, kind, val]; kind "none" when it returns None, else
\* val is the list of the (name, URL) tuples.
ParseDepartments(department_content) ==
    IF department_content = NoContent
    THEN [exc |-> "TypeError", kind |-> "none", val |-> <<>>]
    ELSE IF ~department_content.box
    THEN [exc |-> NoExc, kind |-> "none", val |-> <<>>]
    ELSE LET kept == SelectSeq(SelectSeq(department_content.items, HasAnchor),
                               DepartmentKept)
         IN  [exc |-> NoExc, kind |-> "list",
              val |-> [i \in DOMAIN kept |-> <<kept[i].a[1].title, kept[i].a[1].href>>]]

Range(q) == {q[i] : i \in DOMAIN q}

\* The orders in which a Python set with the elements S may be iterated: the
\* order follows the hashes of the elements, which for strings change from
\* one process to the next.
IterationOrders(S) ==
    {q \in SeqsUpTo(S, Cardinality(S)) : Len(q) = Cardinality(S) /\ Range(q) = S}

\* The homepages.
DepartmentNames == {None, Fashion, TopBrands, <<"T", "o", "y", "s">>,
                    <<"f", "a", "s", "h", "i", "o", "n">>}
DepartmentUrls == {<<"/", "a">>, <<"/", "b">>}
DepartmentElems ==
    {[a |-> <<>>]} \cup {[a |-> <<[title |-> t, href |-> h]>>] :
                            t \in DepartmentNames, h \in DepartmentUrls}
HomeDocs ==
    {NoContent} \cup {[box |-> FALSE, items |-> <<>>]}
        \cup {[box |-> TRUE, items |-> q] : q \in SeqsUpTo(DepartmentElems, MaxDepartments)}

-----------------------------------------------------------------------------
(***************************************************************************)
(* SpecDepartments: one run of the generator scrape_all_departments,       *)
(* resumed by the loop of upload_item_to_database.  dep holds:             *)
(*   pc        "call", "loop" (line 57), "consume" (the yielded catalog    *)
(*             stream is being iterated by the consumer), "done",          *)
(*             "raised", "aborted" (the consumer left its loop)            *)
(*   home      department_content, the page source of the homepage         *)
(*   parsed    the list parse_departments returned                         *)
(*   order     the iteration order of set(parsed)                          *)
(*   k         the position of the for loop in that order                  *)
(*   streams   the (name, URL) of the catalog streams yielded so far       *)
(***************************************************************************)
\* The generator just created by a call of scrape_all_departments.
DepartmentsCall ==
    [pc |-> "call", home |-> NoContent, parsed |-> <<>>, order |-> <<>>,
     k |-> 0, streams |-> <<>>, exc |-> NoExc]

InitDepartments ==
    /\ dep = DepartmentsCall
    /\ ReviewsIdle
    /\ ParseIdle
    /\ CatalogIdle
    /\ SessionIdle
    /\ OthersIdle

\* Lines 50-55: the homepage is fetched and parsed, the set is built and the
\* names are joined for the log line; str.join raises TypeError on None.
DeptStart ==
    /\ dep.pc = "call"
    /\ \E department_content \in HomeDocs :
          LET r == ParseDepartments(department_content)
              d == [dep EXCEPT !.home = department_content, !.parsed = r.val]
          IN  IF r.exc # NoExc
              THEN dep' = [d EXCEPT !.pc = "raised", !.exc = r.exc]
              ELSE IF r.kind = "none"
              THEN dep' = [d EXCEPT !.pc = "raised", !.exc = "TypeError"]
              ELSE \E order \in IterationOrders(Range(r.val)) :
                      dep' = IF \E i \in DOMAIN order : order[i][1] = None
                             THEN [d EXCEPT !.pc = "raised", !.exc = "TypeError",
                                            !.order = order]
                             ELSE [d EXCEPT !.pc = "loop", !.order = order, !.k = 1]
    /\ UNCHANGED outsideDept

\* Lines 57-61: one iteration of the for loop, up to its yield.
DeptYield ==
    /\ dep.pc = "loop"
    /\ dep' = IF dep.k <= Len(dep.order)
              THEN [dep EXCEPT !.pc = "consume",
                               !.streams = Append(@, dep.order[dep.k])]
              ELSE [dep EXCEPT !.pc = "done"]
    /\ UNCHANGED outsideDept

\* scraper.py lines 44-51: the consumer iterates the yielded catalog stream.
\* The stream ends, and the generator is resumed, or it raises, and the
\* exception leaves upload_item_to_database.
DeptConsume ==
    /\ dep.pc = "consume"
    /\ \E raised \in BOOLEAN :
          dep' = IF raised THEN [dep EXCEPT !.pc = "aborted"]
                 ELSE [dep EXCEPT !.pc = "loop", !.k = @ + 1]
    /\ UNCHANGED outsideDept

NextDepartments == DeptStart \/ DeptYield \/ DeptConsume

SpecDepartments == InitDepartments /\ [][NextDepartments]_vars

-----------------------------------------------------------------------------
(***************************************************************************)
(* SpecSession: one command of scraper.py, scrape_gearbest, scrape_catalog *)
(* or scrape_item, inside its with statement.  ses holds:                  *)
(*   pc       "start", "call" (inside the try), "body" (the stream is      *)
(*            being consumed), "exit" (leaving the with block), "end"      *)
(*   command  the command                                                  *)
(*   driver   "none", "open" or "closed"                                   *)
(*   closes   the number of calls of driver.close()                        *)
(*   url, scrapereviews  the arguments of the command scrape_item          *)
(*   product  what scrape_item returned to the command scrape_item         *)
(*   caught   an exception reached the except clause of the command        *)
(* The streams are those of SpecCatalog and SpecDepartments.               *)
(***************************************************************************)
Commands == {"scrape_gearbest", "scrape_catalog", "scrape_item"}

NoProduct == [exc |-> NoExc, kind |-> "pending", item |-> EmptyDict]

InitSession ==
    /\ \E command \in Commands :
          ses = [pc |-> "start", command |-> command, driver |-> "none",
                 closes |-> 0, url |-> "", scrapereviews |-> FALSE,
                 product |-> NoProduct, caught |-> FALSE]
    /\ ReviewsIdle
    /\ ParseIdle
    /\ CatalogIdle
    /\ DeptIdle
    /\ OthersIdle

\* "with GearbestScraper() as scraper": __init__ starts the driver (or
\* raises, and the with block is never entered), __enter__ returns self.
SesEnter ==
    /\ ses.pc = "start"
    /\ \E started \in BOOLEAN :
          ses' = IF started THEN [ses EXCEPT !.pc = "call", !.driver = "open"]
                 ELSE [ses EXCEPT !.pc = "end"]
    /\ UNCHANGED <<reviewVars, parseVars, catalogVars, deptVars, enrichVars, storeVars, uploadVars, fieldVars>>

\* scraper.py lines 76-78 and 100: the call that creates the generator.
SesCall ==
    /\ ses.pc = "call"
    /\ ses.command # "scrape_item"
    /\ ses' = [ses EXCEPT !.pc = "body"]
    /\ IF ses.command = "scrape_catalog"
       THEN /\ \E max_products \in ProductLimits, sort_by_newest \in BOOLEAN :
                  cat' = CatalogCall(max_products, Inf, sort_by_newest)
            /\ UNCHANGED <<yielded, listed, deptVars>>
       ELSE /\ dep' = DepartmentsCall
            /\ UNCHANGED catalogVars
    /\ UNCHANGED <<reviewVars, parseVars, enrichVars, storeVars, uploadVars, fieldVars>>

\* scraper.py line 120: scrape_item has answered product (or raised).
SesProduct(url, scrapereviews, product) ==
    ses' = [ses EXCEPT !.pc = "body", !.url = url, !.scrapereviews = scrapereviews,
                       !.product = product]

\* scraper.py line 120.
SesScrapeItem ==
    /\ ses.pc = "call"
    /\ ses.command = "scrape_item"
    /\ \E kind \in TileKinds, scrapereviews \in BOOLEAN :
          SesProduct(kind, scrapereviews,
                     ScrapeItem(ItemSite(kind), scrapereviews, Inf, Now))
    /\ UNCHANGED <<reviewVars, parseVars, catalogVars, deptVars, enrichVars, storeVars, uploadVars, fieldVars>>

\* upload_item_to_database consumes the stream.
SesConsume ==
    /\ ses.pc = "body"
    /\ NextCatalog \/ NextDepartments

\* The stream of the command has ended or has raised.
StreamEnded ==
    CASE ses.command = "scrape_catalog" -> cat.pc \in {"done", "raised"}
      [] ses.command = "scrape_gearbest" -> dep.pc \in {"done", "raised", "aborted"}
      [] OTHER -> TRUE

StreamRaised ==
    CASE ses.command = "scrape_catalog" -> cat.pc = "raised"
      [] ses.command = "scrape_gearbest" -> dep.pc \in {"raised", "aborted"}
      [] OTHER -> ses.product.exc # NoExc

\* The try statement is left, normally or through "except Exception".
SesLeaveTry ==
    /\ ses.pc = "body"
    /\ StreamEnded
    /\ ses' = [ses EXCEPT !.pc = "exit", !.caught = StreamRaised]
    /\ UNCHANGED <<reviewVars, parseVars, catalogVars, deptVars, enrichVars, storeVars, uploadVars, fieldVars>>

\* __exit__ that closes the driver only when no exception was caught.
SesExitUnlessCaught ==
    /\ ses.pc = "exit"
    /\ ses' = IF ses.caught THEN [ses EXCEPT !.pc = "end"]
              ELSE [ses EXCEPT !.pc = "end", !.driver = "closed", !.closes = @ + 1]
    /\ UNCHANGED <<reviewVars, parseVars, catalogVars, deptVars, enrichVars, storeVars, uploadVars, fieldVars>>

\* __exit__: self.driver.close().
SesExit ==
    /\ ses.pc = "exit"
    /\ ses' = [ses EXCEPT !.pc = "end", !.driver = "closed", !.closes = @ + 1]
    /\ UNCHANGED <<reviewVars, parseVars, catalogVars, deptVars, enrichVars, storeVars, uploadVars, fieldVars>>

NextSession ==
    SesEnter \/ SesCall \/ SesScrapeItem \/ SesConsume \/ SesLeaveTry \/ SesExit

SpecSession == InitSession /\ [][NextSession]_vars

-----------------------------------------------------------------------------
(***************************************************************************)
(* Enrichment.  A response of the language detection API is a record:      *)
(*   success  the "success" field                                          *)
(*   results  <<>> or a list with the first result, a language name        *)
(*   error    <<>> when the "error" object is absent, else <<code>>        *)
(***************************************************************************)
QUOTA_EXCEEDED_ERROR == 104

\* get_language that compares the error code with 101.
GetLanguageOtherCode(response) ==
    IF response.success
    THEN IF response.results # <<>>
         THEN [exc |-> NoExc, kind |-> "dict", val |-> response.results[1]]
         ELSE [exc |-> NoExc, kind |-> "none", val |-> None]
    ELSE IF response.error # <<>> /\ response.error[1] = 101
    THEN [exc |-> "QuotaError", kind |-> "none", val |-> None]
    ELSE [exc |-> "EnrichmentError", kind |-> "none", val |-> None]

\* get_language, once the API has answered response: [exc, kind, val]; kind
\* is "none" when the method returns None (no return statement is reached).
GetLanguage(response) ==
    IF response.success
    THEN IF response.results # <<>>
         THEN [exc |-> NoExc, kind |-> "dict", val |-> response.results[1]]
         ELSE [exc |-> NoExc, kind |-> "none", val |-> None]
    ELSE IF response.error # <<>> /\ response.error[1] = QUOTA_EXCEEDED_ERROR
    THEN [exc |-> "QuotaError", kind |-> "none", val |-> None]
    ELSE [exc |-> "EnrichmentError", kind |-> "none", val |-> None]

\* "except EnrichmentError" catches exc: the quota-exceeded signal is distinct
\* from the generic failure, QuotaError is no EnrichmentError.
IsEnrichmentError(exc) == exc = "EnrichmentError"

Responses ==
    {[success |-> TRUE, results |-> r, error |-> <<>>] : r \in {<<>>, <<(<<"e", "n">>)>>}}
      \cup {[success |-> FALSE, results |-> <<>>, error |-> e] :
               e \in {<<>>, <<QUOTA_EXCEEDED_ERROR>>, <<101>>}}

(***************************************************************************)
(* SpecEnrich: one run of enrich_gearbest_update_languages.  enr holds:    *)
(*   pc         "call", "loop" (line 60), "raised" (an exception left      *)
(*              update_languages), "done" (it returned), "end"             *)
(*   n          the number of reviews the selection returned; the review   *)
(*              ids are 1..n                                               *)
(*   i          the position of the for loop                               *)
(*   responses  what the API answered for the reviews sent so far          *)
(*   sent       the ids of the reviews sent to the API, in order           *)
(*   rows       the rows written to review_languages, in order             *)
(*   handler    the except clause of enricher.py that ran                  *)
(***************************************************************************)
InitEnrich ==
    /\ enr = [pc |-> "call", n |-> 0, i |-> 0, responses |-> <<>>, sent |-> <<>>,
              rows |-> <<>>, exc |-> NoExc, handler |-> ""]
    /\ ReviewsIdle
    /\ ParseIdle
    /\ CatalogIdle
    /\ DeptIdle
    /\ SessionIdle
    /\ StoreIdle
    /\ UploadIdle
    /\ FieldsIdle

\* Lines 55-59: the selection returns at most max_rows reviews.
EnrSelect ==
    /\ enr.pc = "call"
    /\ \E n \in 0..MaxRows : enr' = [enr EXCEPT !.pc = "loop", !.n = n, !.i = 1]
    /\ UNCHANGED <<reviewVars, parseVars, catalogVars, deptVars, sessionVars, storeVars, uploadVars, fieldVars>>

\* Lines 65-75, once get_language has answered results (or raised).
EnrResults(response, results) ==
    LET e == [enr EXCEPT !.responses = Append(@, response), !.sent = Append(@, enr.i)]
    IN  IF results.exc # NoExc
        THEN IF IsEnrichmentError(results.exc)
             THEN enr' = [e EXCEPT !.i = @ + 1]
             ELSE enr' = [e EXCEPT !.pc = "raised", !.exc = results.exc]
        ELSE IF results.kind = "none"
        THEN enr' = [e EXCEPT !.pc = "raised", !.exc = "TypeError"]
        ELSE enr' = [e EXCEPT !.i = @ + 1,
                              !.rows = Append(@, [review_id |-> enr.i,
                                                  detected_language |-> results.val])]

\* Lines 60-75: one iteration of the for loop, or its end.
EnrReview ==
    /\ enr.pc = "loop"
    /\ IF enr.i <= enr.n
       THEN \E response \in Responses : EnrResults(response, GetLanguage(response))
       ELSE enr' = [enr EXCEPT !.pc = "done"]
    /\ UNCHANGED <<reviewVars, parseVars, catalogVars, deptVars, sessionVars, storeVars, uploadVars, fieldVars>>

\* enricher.py lines 49-54: the except clauses and the finally clause.
EnrEnd ==
    /\ enr.pc \in {"done", "raised"}
    /\ enr' = [enr EXCEPT !.pc = "end",
                          !.handler = IF enr.pc = "done" THEN ""
                                      ELSE IF enr.exc = "QuotaError" THEN "QuotaError"
                                      ELSE "Exception"]
    /\ UNCHANGED <<reviewVars, parseVars, catalogVars, deptVars, sessionVars, storeVars, uploadVars, fieldVars>>

NextEnrich == EnrSelect \/ EnrReview \/ EnrEnd

SpecEnrich == InitEnrich /\ [][NextEnrich]_vars

-----------------------------------------------------------------------------
(***************************************************************************)
(* add_product.  A row written is [table, key, refs]: the table, the value *)
(* of its key column and the rows its foreign keys point to, a set of      *)
(* <<table, key>>; a NULL foreign key points to nothing.                   *)
(***************************************************************************)
Ref(table, key) == IF key = None THEN {} ELSE {<<table, key>>}

Row(table, key, refs) == [table |-> table, key |-> key, refs |-> refs]

\* add_categories_from_item: the three insertions, in order.  A CategoryData
\* object is always true, so "if main_cat" and "if middle_cat" always pass.
CategoryRows(item_data) ==
    << Row("main_categories", item_data.main_category.category_id, {}),
       Row("middle_categories", item_data.middle_category.category_id,
           Ref("main_categories", item_data.main_category.category_id)),
       Row("granular_categories", item_data.granular_category.category_id,
           Ref("middle_categories", item_data.middle_category.category_id)) >>

\* add_item.
ItemRows(item_data) ==
    << Row("items", item_data.item_id,
           Ref("granular_categories", item_data.granular_category.category_id)) >>

\* add_item_cat_relationship.
ItemCatRows(item_data) ==
    << Row("item_to_cat", item_data.item_id,
           Ref("items", item_data.item_id)
             \cup Ref("granular_categories", item_data.granular_category.category_id)) >>

\* add_price_from_item: the entries of price_history that are PriceData.
PriceRows(item_data) ==
    LET prices == SelectSeq(item_data.price_history, LAMBDA p : p.kind = "PriceData")
    IN  [k \in DOMAIN prices |-> Row("prices", prices[k].price, Ref("items", item_data.item_id))]

\* add_reviews_from_item: nothing when reviews is None or empty.
ReviewRows(item_data) ==
    [k \in DOMAIN item_data.reviews |->
        Row("reviews", item_data.reviews[k], Ref("items", item_data.item_id))]

\* add_product with add_item called first.
AddProductOrderItemFirst ==
    <<"add_item", "add_categories_from_item", "add_item_cat_relationship",
      "add_price_from_item", "add_reviews_from_item">>

\* add_product: the calls it makes, in order.
AddProductOrder ==
    <<"add_categories_from_item", "add_item", "add_item_cat_relationship",
      "add_price_from_item", "add_reviews_from_item">>

\* The item pages the stored items come from: breadcrumbs of 0 to 3 links,
\* with or without canonical link.
StoreCrumbs ==
    << [href |-> <<"/", "c", "_", "1", "/">>, span |-> << <<"T", "V">> >>],
       [href |-> <<"/", "a", "-", "c", "_", "2", ".", "h">>, span |-> << <<"T", "V">> >>],
       [href |-> <<"/", "c", "_", "3", "/">>, span |-> << <<"T", "V">> >>] >>

StoreDocs ==
    {[Doc(FALSE, <<>>, NoPager) EXCEPT !.canonical = c, !.crumbs = SubSeq(StoreCrumbs, 1, n)] :
        c \in {<<>>, <<GoodHref>>}, n \in 0..3}

NoPriceRecord == [kind |-> "None", price |-> None]

\* The ItemData objects handed to add_product: create_item_data applied to a
\* parsed item, with its price history (one entry, a PriceData or None) and
\* its reviews (none, one or two, named by their user ids).
StoreItems ==
    {CreateItemData(ParseItem(d, Now).item)
        @@ [price_history |-> <<p>>, reviews |-> r] :
        d \in StoreDocs,
        p \in {NoPriceRecord, [kind |-> "PriceData", price |-> <<"9">>]},
        r \in UpToTwo({<<"7">>, <<"8">>})}

(***************************************************************************)
(* SpecStore: one call of add_product.  store holds:                       *)
(*   pc         "call", "done" or "raised"                                 *)
(*   step       the position in AddProductOrder of the next call           *)
(*   item_data  the ItemData object                                        *)
(*   log        the rows written so far, in order                          *)
(* Each statement is committed when it is executed; a statement may raise  *)
(* (connection lost, constraint violated), which ends add_product.         *)
(***************************************************************************)
InitStore ==
    /\ \E item_data \in StoreItems :
          store = [pc |-> "call", step |-> 1, item_data |-> item_data, log |-> <<>>]
    /\ ReviewsIdle
    /\ ParseIdle
    /\ CatalogIdle
    /\ DeptIdle
    /\ SessionIdle
    /\ EnrichIdle
    /\ UploadIdle
    /\ FieldsIdle

\* One call made by add_product: the statements rows are executed in order,
\* all of them or up to one that raises.
StCall(method, rows) ==
    /\ store.pc = "call"
    /\ store.step <= Len(AddProductOrder)
    /\ AddProductOrder[store.step] = method
    /\ \E failed \in 0..Len(rows) :
          store' = IF failed = 0
                   THEN [store EXCEPT !.log = @ \o rows, !.step = @ + 1]
                   ELSE [store EXCEPT !.log = @ \o SubSeq(rows, 1, failed - 1),
                                      !.pc = "raised"]
    /\ UNCHANGED <<reviewVars, parseVars, catalogVars, deptVars, sessionVars, enrichVars, uploadVars, fieldVars>>

StAddCategoriesFromItem ==
    StCall("add_categories_from_item", CategoryRows(store.item_data))

StAddItem == StCall("add_item", ItemRows(store.item_data))

StAddItemCatRelationship ==
    StCall("add_item_cat_relationship", ItemCatRows(store.item_data))

StAddPriceFromItem == StCall("add_price_from_item", PriceRows(store.item_data))

StAddReviewsFromItem == StCall("add_reviews_from_item", ReviewRows(store.item_data))

\* add_product returns.
StReturn ==
    /\ store.pc = "call"
    /\ store.step > Len(AddProductOrder)
    /\ store' = [store EXCEPT !.pc = "done"]
    /\ UNCHANGED <<reviewVars, parseVars, catalogVars, deptVars, sessionVars, enrichVars, uploadVars, fieldVars>>

NextStore ==
    \/ StAddCategoriesFromItem \/ StAddItem \/ StAddItemCatRelationship
    \/ StAddPriceFromItem \/ StAddReviewsFromItem \/ StReturn

SpecStore == InitStore /\ [][NextStore]_vars

-----------------------------------------------------------------------------
(***************************************************************************)
(* upload_item_to_database                                                 *)
(***************************************************************************)
\* create_item_data, lines 76-82: the price record.  The timestamp is a
\* datetime, true whenever the key is there.
PriceRecord(item_data) ==
    IF Truthy(Get(item_data, "price")) /\ Truthy(Get(item_data, "currency_type"))
         /\ "timestamp" \in DOMAIN item_data
    THEN [kind |-> "PriceData", price |-> Get(item_data, "price")]
    ELSE NoPriceRecord

\* create_item_data, lines 71-74: the reviews, named by their user ids; None
\* and the empty list are both <<>>.
ReviewDataList(item_data) ==
    IF "reviews" \in DOMAIN item_data /\ Len(item_data["reviews"]) > 0
    THEN [k \in DOMAIN item_data["reviews"] |-> Get(item_data["reviews"][k], "user_id")]
    ELSE <<>>

\* create_item_data, whole.
CreateItemDataFull(item_data) ==
    CreateItemData(item_data)
      @@ [price_history |-> <<PriceRecord(item_data)>>,
          reviews |-> ReviewDataList(item_data)]

\* The item dictionaries a stream may yield: parse_item's dictionary of a page
\* without canonical link and breadcrumb or with both (two links), bare or
\* with a price and one review.
UploadExtras ==
    {EmptyDict,
     ("price" :> <<"9">>) @@ ("currency_type" :> <<"$">>)
        @@ ("reviews" :> << ("user_id" :> <<"7">>) >>)}

UploadItems ==
    {Update(ParseItem(d, Now).item, x) :
        d \in {x \in StoreDocs : Len(x.crumbs) = IF x.canonical = <<>> THEN 0 ELSE 2},
        x \in UploadExtras}

\* The records of a stream: None or an item dictionary.
UploadRecords ==
    {[kind |-> "none", item |-> EmptyDict]}
      \cup {[kind |-> "dict", item |-> i] : i \in UploadItems}

\* "if item": None and the empty dictionary are false.
RecordTruthy(item) == item.kind = "dict" /\ item.item # EmptyDict

\* The handler of lines 50-51 rolling back what the department has written.
AfterAddProductRollback(committed, st) ==
    IF st.pc = "raised" THEN <<>> ELSE committed \o st.log

\* The committed rows once add_product has ended in state st, returned or
\* raised: each statement was committed when it was executed
\* (execute_manipulation_query), and the handler of lines 50-51 only logs.
AfterAddProduct(committed, st) == committed \o st.log

(***************************************************************************)
(* SpecUpload: one call of upload_item_to_database.  up holds:             *)
(*   pc         "outer" (line 44), "inner" (line 45), "store" (lines 48-49 *)
(*              are running), "returned", "raised" (an exception of a      *)
(*              generator left the function)                               *)
(*   catalogs   the number of catalogs pulled from all_departments         *)
(*   pulled     the records pulled from the catalogs, in order             *)
(*   results    for each call of add_product, in order: [item_data, ok,    *)
(*              at], at the number of rows committed before the call       *)
(*   calls      the number of calls of add_product                         *)
(*   errors     the number of calls of logger.error                        *)
(*   committed  the rows committed before the running call of add_product  *)
(* What the two generators produce is revealed when they are resumed.      *)
(***************************************************************************)
InitUpload ==
    /\ up = [pc |-> "outer", catalogs |-> 0, pulled |-> <<>>, results |-> <<>>,
             calls |-> 0, errors |-> 0, committed |-> <<>>]
    /\ ReviewsIdle
    /\ ParseIdle
    /\ CatalogIdle
    /\ DeptIdle
    /\ SessionIdle
    /\ EnrichIdle
    /\ StoreIdle
    /\ FieldsIdle

outsideUpload ==
    <<reviewVars, parseVars, catalogVars, deptVars, sessionVars, enrichVars, fieldVars>>

\* Line 44: all_departments is asked for the next catalog.
UpOuter ==
    /\ up.pc = "outer"
    /\ \E outcome \in {"catalog", "stop", "raise"} :
          /\ outcome = "catalog" => up.catalogs < MaxCatalogs
          /\ up' = CASE outcome = "catalog" -> [up EXCEPT !.pc = "inner", !.catalogs = @ + 1]
                     [] outcome = "stop" -> [up EXCEPT !.pc = "returned"]
                     [] outcome = "raise" -> [up EXCEPT !.pc = "raised"]
    /\ UNCHANGED <<outsideUpload, storeVars>>

\* Lines 45-46 for the record None: it is skipped.
UpSkip(item) == [up EXCEPT !.pulled = Append(@, item)]

\* Lines 45-49: the catalog is asked for the next record; a record that is
\* true is converted and add_product is called.
UpPull ==
    /\ up.pc = "inner"
    /\ \/ \E item \in UploadRecords :
             /\ Len(up.pulled) < MaxRecords
             /\ IF RecordTruthy(item)
                THEN /\ up' = [up EXCEPT !.pulled = Append(@, item), !.pc = "store",
                                         !.calls = @ + 1]
                     /\ store' = [pc |-> "call", step |-> 1,
                                  item_data |-> CreateItemDataFull(item.item),
                                  log |-> <<>>]
                ELSE /\ up' = UpSkip(item)
                     /\ UNCHANGED store
       \/ /\ up' = [up EXCEPT !.pc = "outer"]
          /\ UNCHANGED store
       \/ /\ up' = [up EXCEPT !.pc = "raised"]
          /\ UNCHANGED store
    /\ UNCHANGED outsideUpload

\* add_product runs.
UpAddProduct ==
    /\ up.pc = "store"
    /\ NextStore

\* Lines 49-51 with the exception leaving upload_item_to_database.
UpResumePropagate ==
    /\ up.pc = "store"
    /\ store.pc \in {"done", "raised"}
    /\ up' = [up EXCEPT !.pc = IF store.pc = "raised" THEN "raised" ELSE "inner",
                        !.results = Append(@, [item_data |-> store.item_data,
                                               ok |-> store.pc = "done",
                                               at |-> Len(up.committed)]),
                        !.committed = AfterAddProduct(@, store)]
    /\ store' = [pc |-> "off"]
    /\ UNCHANGED outsideUpload

\* Lines 49-51: add_product has returned, or has raised and the exception is
\* caught and logged; the loop goes on.
UpResume ==
    /\ up.pc = "store"
    /\ store.pc \in {"done", "raised"}
    /\ up' = [up EXCEPT !.pc = "inner",
                        !.results = Append(@, [item_data |-> store.item_data,
                                               ok |-> store.pc = "done",
                                               at |-> Len(up.committed)]),
                        !.errors = IF store.pc = "raised" THEN @ + 1 ELSE @,
                        !.committed = AfterAddProduct(@, store)]
    /\ store' = [pc |-> "off"]
    /\ UNCHANGED outsideUpload

NextUpload == UpOuter \/ UpPull \/ UpAddProduct \/ UpResume

SpecUpload == InitUpload /\ [][NextUpload]_vars

-----------------------------------------------------------------------------
(***************************************************************************)
(* parse_price and the field helpers of parse_item                         *)
(***************************************************************************)
DEFAULT_CURRENCY == <<"$">>

Digits == {"0", "1", "2", "3", "4", "5", "6", "7", "8", "9"}

\* char == "." or char.isdigit()
IsNumericChar(char) == char = "." \/ char \in Digits

\* parse_price: [exc, price, currency].  Iterating over None raises
\* TypeError; an empty currency is replaced by default_locale.
ParsePrice(input_price, default_locale) ==
    IF input_price = None
    THEN [exc |-> "TypeError", price |-> None, currency |-> None]
    ELSE LET price == SelectSeq(input_price, IsNumericChar)
             currency == SelectSeq(input_price, LAMBDA char : ~IsNumericChar(char))
         IN  [exc |-> NoExc, price |-> price,
              currency |-> IF currency = <<>> THEN default_locale ELSE currency]

\* float(s) for a string of digits and ".": [exc, val], val the number as
\* [int, frac], the digits before the point without leading zeros and the
\* digits after it without trailing zeros.  The string must hold a digit
\* and at most one point.
Float(s) ==
    IF Len(SelectSeq(s, LAMBDA c : c = ".")) > 1 \/ SelectSeq(s, LAMBDA c : c \in Digits) = <<>>
    THEN [exc |-> "ValueError", val |-> [int |-> <<>>, frac |-> <<>>]]
    ELSE LET point == IF \E i \in DOMAIN s : s[i] = "."
                      THEN CHOOSE i \in DOMAIN s : s[i] = "."
                      ELSE Len(s) + 1
         IN  [exc |-> NoExc,
              val |-> [int |-> LStrip(SubSeq(s, 1, point - 1), {"0"}),
                       frac |-> RStrip(SubSeq(s, point + 1, Len(s)), {"0"})]]

\* _parse_price_element: [exc, val] with val the mutated dictionary.
ParsePriceElement(price, item_dict) ==
    IF price # <<>>
    THEN LET price_data == Strip(RemoveChar(price[1], "\n"), WHITESPACE)
             parsed_price == ParsePrice(price_data, DEFAULT_CURRENCY)
             item_price == Float(parsed_price.price)
         IN  IF item_price.exc # NoExc
             THEN [exc |-> item_price.exc, val |-> item_dict]
             ELSE [exc |-> NoExc,
                   val |-> Put(Put(item_dict, "price", item_price.val),
                               "currency_type", parsed_price.currency)]
    ELSE [exc |-> NoExc, val |-> item_dict]

\* Currency symbols, three of the keys of DataParser.CURRENCY_TYPES.
CurrencySymbols == {<<"$">>, <<"C", "$">>, <<"D", "K", "r", ".">>}

NumericRuns == SeqsUpTo({"2", "0", "."}, MaxRun)

Locales == {DEFAULT_CURRENCY, <<>>, None}

\* The texts of a price element: a price string, bare or within white space.
PriceTexts ==
    {s \o n : s \in {<<>>} \cup CurrencySymbols, n \in NumericRuns}
      \cup {<<"\n", " ", "$", "2", " ", "\n">>, <<"F", "r", "e", "e">>}

\* The dictionary a helper is handed: empty or with the keys set before.
ItemDicts == {EmptyDict, ("item_url" :> GoodHref) @@ ("item_name" :> <<"n">>)}

\* The calls of parse_price.
PriceCalls ==
    {[pc |-> "call", helper |-> "parse_price", symbol |-> s, run |-> n,
      input_price |-> s \o n, default_locale |-> l] :
        s \in {<<>>} \cup CurrencySymbols, n \in NumericRuns, l \in Locales}
      \cup {[pc |-> "call", helper |-> "parse_price", symbol |-> <<>>, run |-> <<>>,
             input_price |-> None, default_locale |-> l] : l \in Locales}

\* The calls of a field helper with the elements given.
HelperCalls(helper, elements) ==
    {[pc |-> "call", helper |-> helper, element |-> e, item_dict |-> d] :
        e \in elements, d \in ItemDicts}

(***************************************************************************)
(* SpecFields: one call of parse_price or of a field helper.  fld holds    *)
(* the call (helper and arguments) and, once pc is "done", its outcome     *)
(* out: [exc, price, currency] for parse_price, [exc, val] for a helper,   *)
(* val being the dictionary after the call.                                *)
(***************************************************************************)
InitFields ==
    /\ \/ fld \in PriceCalls
       \/ fld \in HelperCalls("_parse_price_element", {<<>>} \cup {<<t>> : t \in PriceTexts})
       \/ fld \in HelperCalls("_parse_basic_element",
                              {<<>>, << <<"n">> >>, << <<" ", "n", "\n">> >>})
       \/ fld \in HelperCalls("_parse_item_url",
                              {<<>>} \cup {<<h>> : h \in ItemHrefs \cup {None}})
       \/ fld \in HelperCalls("_parse_categories", SeqsUpTo(Crumbs, 1))
    /\ ReviewsIdle
    /\ ParseIdle
    /\ CatalogIdle
    /\ DeptIdle
    /\ SessionIdle
    /\ EnrichIdle
    /\ StoreIdle
    /\ UploadIdle

FldDone(helper, out) ==
    /\ fld.pc = "call"
    /\ fld.helper = helper
    /\ fld' = [pc |-> "done", out |-> out] @@ fld
    /\ UNCHANGED <<reviewVars, parseVars, catalogVars, deptVars, sessionVars, enrichVars,
                   storeVars, uploadVars>>

FldParsePrice ==
    /\ fld.helper = "parse_price"
    /\ FldDone("parse_price", ParsePrice(fld.input_price, fld.default_locale))

FldParsePriceElement ==
    /\ fld.helper = "_parse_price_element"
    /\ FldDone("_parse_price_element", ParsePriceElement(fld.element, fld.item_dict))

FldParseBasicElement ==
    /\ fld.helper = "_parse_basic_element"
    /\ FldDone("_parse_basic_element",
               [exc |-> NoExc, val |-> ParseBasicElement(fld.element, fld.item_dict, "item_name")])

FldParseItemUrl ==
    /\ fld.helper = "_parse_item_url"
    /\ FldDone("_parse_item_url", ParseItemUrl(fld.element, fld.item_dict))

FldParseCategories ==
    /\ fld.helper = "_parse_categories"
    /\ FldDone("_parse_categories", ParseCategories(fld.element, fld.item_dict))

NextFields ==
    \/ FldParsePrice \/ FldParsePriceElement \/ FldParseBasicElement
    \/ FldParseItemUrl \/ FldParseCategories

SpecFields == InitFields /\ [][NextFields]_vars

-----------------------------------------------------------------------------
(***************************************************************************)
(* Properties of the department traversal (SpecDepartments)                *)
(***************************************************************************)
PairCount(q, pair) == Cardinality({i \in DOMAIN q : q[i] = pair})

\* C12: a (name, URL) pair the homepage lists, once or several times, gets
\* exactly one catalog stream by the time scrape_all_departments has ended,
\* and never more than one.
C12_OneTraversalPerDepartment ==
    /\ \A i \in DOMAIN dep.streams : PairCount(dep.streams, dep.streams[i]) = 1
    /\ dep.pc \in {"done", "raised"} =>
          \A pair \in Range(dep.parsed) : PairCount(dep.streams, pair) = 1

\* The departments of the homepage: its list elements with an anchor.
HomeDepartments ==
    IF dep.home = NoContent THEN {}
    ELSE {<<d.a[1].title, d.a[1].href>> : d \in {e \in Range(dep.home.items) : e.a # <<>>}}

\* C13: no catalog stream is ever yielded for a department named "Fashion"
\* or "Top Brands", and parse_departments keeps every department of the
\* homepage with another name, a missing name included.
C13_ExcludedDepartments ==
    /\ \A i \in DOMAIN dep.streams : dep.streams[i][1] \notin {Fashion, TopBrands}
    /\ dep.pc \notin {"off", "call"} =>
          Range(dep.parsed) = {d \in HomeDepartments : d[1] \notin {Fashion, TopBrands}}

\* The homepage listed "Fashion", "Top Brands" and "Toys" under one URL and
\* the generator ended having yielded the stream of "Toys" only.
C13_Witness ==
    /\ dep.pc = "done"
    /\ {d[1] : d \in HomeDepartments} = {Fashion, TopBrands, <<"T", "o", "y", "s">>}
    /\ dep.streams = << <<(<<"T", "o", "y", "s">>), (<<"/", "a">>)>> >>

\* The distinct elements of a list in the order of their first occurrence.
RECURSIVE FirstOccurrences(_)
FirstOccurrences(q) ==
    IF q = <<>> THEN <<>>
    ELSE LET front == FirstOccurrences(SubSeq(q, 1, Len(q) - 1))
         IN  IF q[Len(q)] \in Range(front) THEN front ELSE Append(front, q[Len(q)])

\* C14: the k-th stream scrape_all_departments yields belongs to the k-th
\* distinct department in the order of the homepage list.
C14_PageOrder ==
    dep.pc # "off" =>
        \A k \in DOMAIN dep.streams : dep.streams[k] = FirstOccurrences(dep.parsed)[k]

-----------------------------------------------------------------------------
(***************************************************************************)
(* Properties of the commands (SpecSession)                                *)
(***************************************************************************)

\* C15: once a command has ended, the driver it started has been closed
\* exactly once, whether the stream ended or raised; the driver is never
\* closed twice, and every step of a stream and every call of scrape_item
\* is made on the open driver.
C15_SessionClosed ==
    /\ [](ses.pc # "off" =>
            /\ ses.closes <= 1
            /\ ses.pc = "end" =>
                  \/ ses.driver = "none" /\ ses.closes = 0
                  \/ ses.driver = "closed" /\ ses.closes = 1)
    /\ [][(cat' # cat \/ dep' # dep \/ ses'.product # ses.product)
             => (ses.driver = "open" /\ ses'.driver = "open")]_vars

\* The catalog stream of scrape_catalog raised in the middle of a page and
\* the command has ended with the driver closed.
C15_Witness ==
    /\ ses.pc = "end"
    /\ ses.command = "scrape_catalog"
    /\ ses.caught
    /\ cat.raised_at = "item"
    /\ ses.driver = "closed"

\* scrape_item was called with scrapereviews on for an item page that shows
\* a review, and the "most recent" sort control could not be operated.
SortFailedOnReviewedItem ==
    /\ ses.pc \notin {"off", "start", "call"}
    /\ ses.command = "scrape_item"
    /\ ses.scrapereviews
    /\ ~ItemSite(ses.url).sort
    /\ ItemSite(ses.url).page # NoContent
    /\ ItemSite(ses.url).page.info
    /\ ItemSite(ses.url).page.elems # <<>>

\* C16: when the sort interaction fails, scrape_item still returns the item
\* record and the record carries the reviews of the page already loaded.
C16_SortFailureKeepsReviews ==
    SortFailedOnReviewedItem =>
        /\ ses.product.exc = NoExc
        /\ ses.product.kind = "dict"
        /\ "reviews" \in DOMAIN ses.product.item

-----------------------------------------------------------------------------
(***************************************************************************)
(* Properties of the enrichment (SpecEnrich)                               *)
(***************************************************************************)
IsQuotaResponse(response) ==
    ~response.success /\ response.error = <<QUOTA_EXCEEDED_ERROR>>

QuotaSignalled == \E j \in DOMAIN enr.responses : IsQuotaResponse(enr.responses[j])

IsPrefix(p, q) == Len(p) <= Len(q) /\ SubSeq(q, 1, Len(p)) = p

\* C18: once the API has signalled quota-exceeded for a review, the run is
\* over: that review is the last one sent, it gets no row, no row is written
\* afterwards, and the rows written before stay as they were.
C18_QuotaHalts ==
    /\ [](QuotaSignalled =>
            /\ enr.pc \in {"raised", "end"}
            /\ enr.exc = "QuotaError"
            /\ IsQuotaResponse(enr.responses[Len(enr.responses)])
            /\ \A k \in DOMAIN enr.rows : enr.rows[k].review_id < Len(enr.sent))
    /\ [][QuotaSignalled => (enr'.sent = enr.sent /\ enr'.rows = enr.rows)]_vars
    /\ [][enr.pc # "off" => IsPrefix(enr.rows, enr'.rows)]_vars

\* The second of three reviews met quota-exceeded after the first got its
\* row: the run has ended with that one row and the third review unsent.
C18_Witness ==
    /\ enr.pc = "end"
    /\ enr.handler = "QuotaError"
    /\ enr.n = 3
    /\ enr.sent = <<1, 2>>
    /\ Len(enr.rows) = 1
    /\ enr.rows[1].review_id = 1

\* The API answered the review with an error of another code, without error
\* object, or with a successful response that holds no result.
IsGenericFailure(response) ==
    \/ ~response.success /\ ~IsQuotaResponse(response)
    \/ response.success /\ response.results = <<>>

\* C19: in a run that met no quota-exceeded, every review of the batch is
\* sent to the API, the reviews whose detection failed get no row and the
\* others get theirs.
C19_GenericFailureSkips ==
    (enr.pc \in {"raised", "done", "end"} /\ ~QuotaSignalled) =>
        /\ enr.sent = [k \in 1..enr.n |-> k]
        /\ {enr.rows[k].review_id : k \in DOMAIN enr.rows}
              = {j \in 1..enr.n : ~IsGenericFailure(enr.responses[j])}

-----------------------------------------------------------------------------
(***************************************************************************)
(* Properties of add_product (SpecStore)                                   *)
(***************************************************************************)
TableRank(table) ==
    CASE table = "main_categories" -> 1
      [] table = "middle_categories" -> 2
      [] table = "granular_categories" -> 3
      [] table = "items" -> 4
      [] OTHER -> 5

\* C20: the rows of one item are written in foreign-key order: main, middle,
\* granular category, then the item, then its item-to-category, price and
\* review rows; every row a written row points to was written before it.
C20_ForeignKeyOrder ==
    store.pc # "off" =>
        /\ \A j, k \in DOMAIN store.log :
              j < k => TableRank(store.log[j].table) <= TableRank(store.log[k].table)
        /\ \A k \in DOMAIN store.log : \A ref \in store.log[k].refs :
              \E j \in 1..(k - 1) :
                 store.log[j].table = ref[1] /\ store.log[j].key = ref[2]

\* An item with an identifier, a two-link breadcrumb, a price and two reviews
\* was written completely: eight rows, the reviews pointing to the item row,
\* the granular category row pointing to the middle category.
C20_Witness ==
    /\ store.pc = "done"
    /\ Len(store.log) = 8
    /\ store.log[3].table = "granular_categories"
    /\ store.log[3].refs = {<<"middle_categories", store.log[2].key>>}
    /\ store.log[3].key = store.log[2].key
    /\ store.log[4].table = "items"
    /\ store.log[8].table = "reviews"
    /\ store.log[8].refs = {<<"items", store.log[4].key>>}

-----------------------------------------------------------------------------
(***************************************************************************)
(* Properties of upload_item_to_database (SpecUpload)                      *)
(***************************************************************************)
\* The rows committed to the database.
Database == IF up.pc = "off" THEN <<>>
            ELSE IF store.pc = "off" THEN up.committed ELSE up.committed \o store.log

\* All the rows of one item, in the order add_product writes them.
AllRows(item_data) ==
    CategoryRows(item_data) \o ItemRows(item_data) \o ItemCatRows(item_data)
      \o PriceRows(item_data) \o ReviewRows(item_data)

\* C21: once add_product has returned for an item all of its rows are
\* committed, and nothing that happens later (a failing statement of a later
\* item, an exception of a generator) removes a committed row: the committed
\* rows only grow at the end.
C21_CommittedPerRecord ==
    /\ [](\A k \in DOMAIN up.results :
             up.results[k].ok =>
                LET rows == AllRows(up.results[k].item_data)
                IN  /\ Len(Database) >= up.results[k].at + Len(rows)
                    /\ SubSeq(Database, up.results[k].at + 1,
                              up.results[k].at + Len(rows)) = rows)
    /\ [][IsPrefix(Database, Database')]_vars

\* A first item was stored completely, a statement of the second item failed
\* after some of its rows were written, and the function has ended: the rows
\* of the first item are there, followed by the rows the second had written.
C21_Witness ==
    /\ up.pc \in {"returned", "raised"}
    /\ Len(up.results) = 2
    /\ up.results[1].ok
    /\ ~up.results[2].ok
    /\ Len(up.committed) > Len(AllRows(up.results[1].item_data))
    /\ Len(AllRows(up.results[1].item_data)) >= 5

\* C27: an exception of create_item_data or add_product is caught and logged
\* and the loop goes on with the next record of the same catalog; add_product
\* is called once for each record that is not null and never for a null one.
C27_FailureDoesNotStopRun ==
    /\ [](up.pc # "off" =>
             /\ up.calls = Len(SelectSeq(up.pulled, RecordTruthy))
             /\ up.errors = Len(SelectSeq(up.results, LAMBDA r : ~r.ok)))
    /\ [][(up.pc = "store" /\ store.pc = "raised") =>
             (up'.pc = "inner" /\ up'.errors = up.errors + 1)]_vars

\* The first record could not be stored, the second one, pulled from the
\* same catalog afterwards, was stored completely.
C27_Witness ==
    /\ up.catalogs = 1
    /\ Len(up.results) = 2
    /\ ~up.results[1].ok
    /\ up.results[2].ok
    /\ up.errors = 1
    /\ Len(up.committed) >= up.results[2].at + 5

-----------------------------------------------------------------------------
(***************************************************************************)
(* Properties of parse_price and the field helpers (SpecFields)            *)
(***************************************************************************)
PriceParsed == fld.pc = "done" /\ fld.helper = "parse_price"

\* C22: parse_price of the empty string or of None returns (None, None),
\* whatever the default currency, and does not raise.
C22_EmptyPriceIsNull ==
    (PriceParsed /\ fld.input_price \in {<<>>, None}) =>
        fld.out = [exc |-> NoExc, price |-> None, currency |-> None]

\* C23: for a non-empty string made of an optional currency symbol followed
\* by a numeric run, parse_price returns the numeric run as price and the
\* symbol as currency, the default currency when there is no symbol.
C23_PriceRoundTrip ==
    (PriceParsed /\ fld.input_price # None /\ fld.input_price # <<>>) =>
        /\ fld.out.exc = NoExc
        /\ fld.out.price = fld.run
        /\ fld.out.currency = IF fld.symbol # <<>> THEN fld.symbol ELSE fld.default_locale

HelperDone ==
    /\ fld.pc = "done"
    /\ fld.helper \in {"_parse_price_element", "_parse_basic_element", "_parse_item_url",
                       "_parse_categories"}

\* C24: a field helper handed an absent element returns without raising and
\* leaves the dictionary as it was; _parse_price_element handed a price
\* element adds exactly the keys price and currency_type.
C24_AbsentFieldLeavesRecord ==
    /\ (HelperDone /\ fld.element = <<>>) =>
          (fld.out.exc = NoExc /\ fld.out.val = fld.item_dict)
    /\ (HelperDone /\ fld.helper = "_parse_price_element" /\ fld.element # <<>>) =>
          /\ fld.out.exc = NoExc
          /\ DOMAIN fld.out.val = DOMAIN fld.item_dict \cup {"price", "currency_type"}
          /\ \A k \in DOMAIN fld.item_dict : fld.out.val[k] = fld.item_dict[k]

-----------------------------------------------------------------------------
(***************************************************************************)
(* Further properties of the parser (SpecParse)                            *)
(***************************************************************************)
\* The posted time of the review element is in neither date format.
UnparsableTime(review) == review.time # <<>> /\ review.time[1].fmt = "other"

\* C25: a posted time in neither date format gives the review a null post
\* timestamp, and no error leaves the review parsing.
C25_UnparsableTimeIsNull ==
    (ppc = "reviews" /\ doc.wrap /\ \E i \in DOMAIN doc.elems : UnparsableTime(doc.elems[i])) =>
        /\ revs.exc = NoExc
        /\ revs.kind = "list"
        /\ \A i \in DOMAIN revs.reviews :
              (Len(revs.reviews) = Len(doc.elems) /\ UnparsableTime(doc.elems[i]))
                 => revs.reviews[i]["post_timestamp"] = NoTs

-----------------------------------------------------------------------------
(***************************************************************************)
(* Further properties of the catalog traversal (SpecCatalog)               *)
(***************************************************************************)
\* The step fetches a catalog page.
CatalogPageFetched == cat.pc = "loop" /\ cat'.pc \in {"resume94", "raise98", "items"}

\* The step fetches an item page.
ItemPageFetched == cat'.item_fetches > cat.item_fetches

\* C26: when an item page is fetched, the record of every item fetched before
\* has been yielded, and the record of this one is yielded before anything
\* else is fetched; when a catalog page is fetched, the record of every item
\* listed by the pages before has been yielded.
C26_LazyTraversal ==
    [][/\ ItemPageFetched =>
             /\ Len(yielded) = cat.item_fetches
             /\ cat'.pc # "raised" => Len(yielded') = Len(yielded) + 1
       /\ CatalogPageFetched => Len(yielded) = Len(listed)]_vars

\* The second catalog page has been fetched after a first page of two items,
\* and an item of it has been fetched and yielded.
C26_Witness ==
    /\ cat.pc = "items"
    /\ cat.current_page = 2
    /\ cat.item_fetches >= 3
    /\ Len(yielded) = cat.item_fetches
    /\ Len(listed) > cat.item_fetches

\* The step yields a null record for an item.
NullItemYielded ==
    /\ ItemPageFetched
    /\ Len(yielded') = Len(yielded) + 1
    /\ yielded'[Len(yielded')].kind = "none"

\* C28: parsed_count is the number of non-null records yielded so far; a
\* null record for an item leaves it unchanged and the for loop goes on with
\* the next item; the generator ends normally only when the pages have run
\* out or parsed_count has reached max_products.
C28_NullConsumesNoQuota ==
    /\ [](cat.pc # "off" =>
             /\ cat.parsed_count = Cardinality(NonNullYielded)
             /\ cat.pc = "done" =>
                   (cat.current_page = 0 \/ cat.parsed_count >= cat.max_products))
    /\ [][NullItemYielded =>
             /\ cat'.parsed_count = cat.parsed_count
             /\ cat'.pc = "items"
             /\ cat'.idx = cat.idx + 1]_vars

\* With max_products 1, a null record was yielded for the first item and a
\* non-null one for the item after it, which ended the traversal.
C28_Witness ==
    /\ cat.pc = "done"
    /\ cat.max_products = 1
    /\ Len(yielded) >= 2
    /\ yielded[1].kind = "none"
    /\ yielded[2].kind # "none"
    /\ cat.parsed_count = 1
    /\ cat.item_fetches = Len(yielded)

\* The catalog page last fetched has a product list without any tile.
EmptyCatalogPage ==
    /\ cat.page_content # NoContent
    /\ cat.page_content.list # "none"
    /\ cat.page_content.tiles = <<>>

\* The null records yielded since the last catalog page was fetched, when no
\* item of it was fetched.
TrailingNulls == SubSeq(yielded, Len(listed) + 1, Len(yielded))

\* C29: a catalog page with a product list and no tile makes the generator
\* yield one null record and raise ParsingError without looking up the next
\* page; a page whose parse raised makes it yield two null records before
\* the ParsingError.
C29_EmptyPageIsHardFailure ==
    /\ [](cat.pc # "off" =>
             /\ EmptyCatalogPage => cat.pc \in {"raise98", "raised"}
             /\ (cat.pc = "raised" /\ cat.raised_at = "catalog") =>
                   /\ cat.exc = "ParsingError"
                   /\ TrailingNulls = IF EmptyCatalogPage THEN <<NoneProduct>>
                                      ELSE <<NoneProduct, NoneProduct>>)
    /\ [][cat.pc = "raise98" =>
             /\ cat'.pc = "raised"
             /\ cat'.current_page = cat.current_page
             /\ yielded' = yielded]_vars

\* The first catalog page had a product list without tile and a link to a
\* next page: one null record was yielded and ParsingError raised.
C29_Witness ==
    /\ cat.pc = "raised"
    /\ cat.exc = "ParsingError"
    /\ EmptyCatalogPage
    /\ RetrieveNextPage(cat.page_content).found
    /\ cat.current_page = 1
    /\ yielded = <<NoneProduct>>

\* Sorting by newest, the entry page has the sort container and no link
\* labelled "New".
NoNewLink ==
    /\ cat.sort_by_newest
    /\ cat.non_sorted_page_source # NoContent
    /\ cat.non_sorted_page_source.sort_item_box
    /\ \A i \in DOMAIN cat.non_sorted_page_source.sorting_links :
          ~cat.non_sorted_page_source.sorting_links[i]

\* C30: with sort_by_newest on and an entry page whose sort container has no
\* link labelled "New", the generator ends at once: no record is yielded, no
\* catalog or item page is fetched and no exception is raised.
C30_NoNewLinkEndsSilently ==
    /\ [](NoNewLink =>
             /\ cat.pc \in {"loop", "done"}
             /\ cat.current_page = 0
             /\ cat.exc = NoExc
             /\ cat.item_fetches = 0
             /\ cat.page_content = NoContent
             /\ yielded = <<>>)
    /\ [][(NoNewLink /\ cat.pc = "loop") => cat'.pc = "done"]_vars

\* The generator has ended without a record although the entry page lists an
\* item and max_products allows one.
C30_Witness ==
    /\ cat.pc = "done"
    /\ NoNewLink
    /\ cat.non_sorted_page_source.tiles # <<>>
    /\ cat.non_sorted_page_source.sorting_links # <<>>
    /\ cat.max_products > 0
    /\ yielded = <<>>

=============================================================================
